---- MODULE Spec2Model ----
(***************************************************************************)
(* Bill-photo scan orchestrator of the expense tracker: scanBill of the    *)
(* confidence-gated ocrService (src/unnamed/part_007 lines 1-180, the same *)
(* code as src/frontend/src/services/ocrService.ts lines 312-513), the     *)
(* AddBill screen that calls it (src/frontend/app/add-bill.tsx), and the   *)
(* two earlier copies of scanBill with their text extractors               *)
(* (ocrService.ts lines 1-310 and part_007 lines 182-458).                 *)
(*                                                                         *)
(* Conventions                                                             *)
(*  - a confidence c in [0,1] is the integer 100*c (0.40 is 40);           *)
(*  - a JS string is a sequence of tokens; the amount strings are          *)
(*    sequences of single characters so that parseFloat is computed;       *)
(*  - Turkish letters of the message literals are written in ASCII;        *)
(*  - a JS number is a record: NaN, or an integer count of hundredths;     *)
(*  - a value that may be undefined or null is a sequence of length at     *)
(*    most one: None is undefined/null, Some(v) holds v.                   *)
(***************************************************************************)
EXTENDS Integers, Sequences, FiniteSets, TLC

VARIABLES
    pc,         \* position of the scanBill call
    useCamera,  \* argument of scanBill
    granted,    \* camera.granted, kept while the media permission is asked
    image,      \* result of pickAndCompressImage
    data,       \* response.data of the OCR call
    thrown,     \* the error caught by scanBill's catch block
    warnings,   \* the local warnings array of the call
    result,     \* the BillScanResult the promise resolved to
    outcome,    \* state of the promise returned by scanBill
    suspended,  \* a second scanBill call, waiting at one of its awaits
    form,       \* the state hooks of the AddBill screen
    legacy      \* a call of the scanBill without confidence scores

call == <<pc, useCamera, granted, image, data, thrown, warnings, result, outcome>>

vars == <<call, suspended, form, legacy>>

-----------------------------------------------------------------------------
(* Values *)

None == <<>>
Some(v) == <<v>>
IsSome(o) == o # <<>>
Get(o) == o[1]

HIGH_CONFIDENCE == 70
LOW_CONFIDENCE == 40
MIN_TEXT_LENGTH == 10
RAW_TEXT_ECHO == 500

\* Bound: length of the longest recognized text.
MaxTextLen == 12

\* Bound: the last calendar year in which a scan is made.
LastClockYear == 2026

\* The calendar years in which a scan is made: the year of the dates of
\* the recognized texts and the years after it.
ClockYears == (LastClockYear - 1) .. LastClockYear

\* Confidence scores around the two thresholds.
Confidences == {0, 39, 40, 69, 70, 100}

BillerNames == { <<"Enerjisa">> }
DueDates == { <<"2025-06-12">> }
AmountTexts == { <<"3", "5", "0", ".", "7", "5">>,
                  <<"0", ".", "0", "0">>,
                  <<"a", "b", "c">> }
Currencies == { <<"TRY">> }

Min(a, b) == IF a < b THEN a ELSE b

Range(s) == { s[i] : i \in DOMAIN s }

\* String.prototype.includes over token sequences.
Includes(s, t) ==
    \E i \in 0..(Len(s) - Len(t)) : \A j \in 1..Len(t) : s[i + j] = t[j]

\* String.prototype.substring(0, n).
Substring0(s, n) == SubSeq(s, 1, Min(Len(s), n))

\* A text of n characters.
TextOfLen(n) == [i \in 1..n |-> "x"]

\* JS truthiness of a string-or-null value: null and "" are falsy.
Truthy(o) == IsSome(o) /\ Get(o) # <<>>

-----------------------------------------------------------------------------
(* parseFloat *)

NaN == [nan |-> TRUE, val |-> 0]
Num(n) == [nan |-> FALSE, val |-> n]

Digits == {"0", "1", "2", "3", "4", "5", "6", "7", "8", "9"}

DigitVal(d) ==
    CASE d = "0" -> 0 [] d = "1" -> 1 [] d = "2" -> 2 [] d = "3" -> 3
      [] d = "4" -> 4 [] d = "5" -> 5 [] d = "6" -> 6 [] d = "7" -> 7
      [] d = "8" -> 8 [] d = "9" -> 9

\* Number of leading digits of s from position i.
RECURSIVE DigitRun(_, _)
DigitRun(s, i) ==
    IF i <= Len(s) /\ s[i] \in Digits THEN 1 + DigitRun(s, i + 1) ELSE 0

\* Value of the n digits of s that start at position i.
RECURSIVE DigitsValue(_, _, _)
DigitsValue(s, i, n) ==
    IF n = 0 THEN 0
    ELSE 10 * DigitsValue(s, i, n - 1) + DigitVal(s[i + n - 1])

\* parseFloat(s) in hundredths: the longest numeric prefix, NaN without one.
\* Fraction digits after the second are below the unit and are dropped.
parseFloat(s) ==
    LET ni == DigitRun(s, 1)
        hasDot == ni + 1 <= Len(s) /\ s[ni + 1] = "."
        nf == IF hasDot THEN DigitRun(s, ni + 2) ELSE 0
        f1 == IF nf >= 1 THEN DigitVal(s[ni + 2]) ELSE 0
        f2 == IF nf >= 2 THEN DigitVal(s[ni + 3]) ELSE 0
    IN  IF ni = 0 /\ nf = 0 THEN NaN
        ELSE Num(100 * DigitsValue(s, 1, ni) + 10 * f1 + f2)

isNaN(n) == n.nan

\* JS truthiness of a number-or-undefined value: undefined, NaN and 0 are falsy.
TruthyNumber(o) == IsSome(o) /\ ~Get(o).nan /\ Get(o).val # 0

-----------------------------------------------------------------------------
(* The OCR response: OcrResult and ParsedField *)

\* A ParsedField; a null value has confidence 0.
ParsedFields(values) ==
    { [value |-> None, confidence |-> 0] }
        \cup { [value |-> Some(v), confidence |-> c] : v \in values, c \in Confidences }

\* A property of parsed: a ParsedField, or None when the response lacks it.
Properties(values) == { None } \cup { Some(f) : f \in ParsedFields(values) }

ParsedObjects ==
    [ biller_name : Properties(BillerNames),
      due_date    : Properties(DueDates),
      amount_due  : Properties(AmountTexts),
      currency    : Properties(Currencies) ]

TextLens == {0, 3, MIN_TEXT_LENGTH - 1, MIN_TEXT_LENGTH, MaxTextLen}

RawTexts == { None } \cup { Some(TextOfLen(n)) : n \in TextLens }

\* response.data: None when the body is not an object.
ResponseData ==
    { None }
        \cup { Some([rawText |-> t, parsed |-> None]) : t \in RawTexts }
        \cup { Some([rawText |-> t, parsed |-> Some(p)]) : t \in RawTexts, p \in ParsedObjects }

\* An error object: error.response?.status and error.code, and the step that threw.
Error(at, hasResponse, status, code) ==
    [at |-> at, hasResponse |-> hasResponse, status |-> status, code |-> code]

\* A TypeError or another exception that is not an axios error.
PlainError(at) == Error(at, FALSE, 0, "")

\* The rejections of axios.post: timeout, HTTP error status, network failure.
AxiosErrors ==
    { Error("post", FALSE, 0, "ECONNABORTED"),
      Error("post", TRUE, 401, "ERR_BAD_REQUEST"),
      Error("post", TRUE, 500, "ERR_BAD_RESPONSE"),
      Error("post", FALSE, 0, "ERR_NETWORK") }

-----------------------------------------------------------------------------
(* BillScanResult *)

MSG_NO_PHOTO == "Fotograf secilemedi veya izin verilmedi."
MSG_NO_TEXT == "Faturada metin bulunamadi. Daha net fotograf cekin."
MSG_NO_DATA == "Bilgiler tam cikarilamadi. Lutfen manuel doldurun."
MSG_AUTH == "Yetkilendirme hatasi."
MSG_TIMEOUT == "Islem zaman asimina ugradi."
MSG_GENERIC == "Tarama basarisiz. Tekrar deneyin."

\* Failure without the error message.
FailureWithoutError(w, msg) ==
    [ success |-> FALSE, billerName |-> None, dueDate |-> None, amount |-> None,
      currency |-> None, rawText |-> None, warnings |-> w, error |-> None ]

\* { success: false, warnings, error }
Failure(w, msg) ==
    [ success |-> FALSE, billerName |-> None, dueDate |-> None, amount |-> None,
      currency |-> None, rawText |-> None, warnings |-> w, error |-> Some(msg) ]

\* The warning literals, as token sequences.
\* BillerWarning without the interpolated name.
BillerWarningWithoutValue(billerName) ==
    <<"Kurum", "adi", "kontrol", "edin">>

BillerWarning(billerName) ==
    <<"Kurum", "adi", "kontrol", "edin:", "\"">> \o billerName \o <<"\"">>

DueDateWarning == <<"Son", "odeme", "tarihini", "kontrol", "edin">>

AmountWarning == <<"Tutari", "kontrol", "edin">>

-----------------------------------------------------------------------------
(* Step 3 of scanBill: the confidence gate *)

\* The locals billerName, dueDate, amount, currency and the warnings array.
Locals(w) ==
    [ billerName |-> None, dueDate |-> None, amount |-> None, currency |-> None,
      warnings |-> w ]

GateBillerName(f, st) ==
    IF Truthy(f.value) /\ f.confidence >= LOW_CONFIDENCE
    THEN [ st EXCEPT !.billerName = f.value,
                     !.warnings = IF f.confidence < HIGH_CONFIDENCE
                                  THEN Append(@, BillerWarning(Get(f.value)))
                                  ELSE @ ]
    ELSE st

\* GateDueDate with the high threshold compared by <= instead of <.
GateDueDateInclusive(f, st) ==
    IF Truthy(f.value) /\ f.confidence >= LOW_CONFIDENCE
    THEN [ st EXCEPT !.dueDate = f.value,
                     !.warnings = IF f.confidence <= HIGH_CONFIDENCE
                                  THEN Append(@, DueDateWarning)
                                  ELSE @ ]
    ELSE st

GateDueDate(f, st) ==
    IF Truthy(f.value) /\ f.confidence >= LOW_CONFIDENCE
    THEN [ st EXCEPT !.dueDate = f.value,
                     !.warnings = IF f.confidence < HIGH_CONFIDENCE
                                  THEN Append(@, DueDateWarning)
                                  ELSE @ ]
    ELSE st

GateAmount(f, st) ==
    IF Truthy(f.value) /\ f.confidence >= LOW_CONFIDENCE
    THEN LET parsedAmount == parseFloat(Get(f.value))
             amount == IF isNaN(parsedAmount) THEN None ELSE Some(parsedAmount)
         IN  [ st EXCEPT !.amount = amount,
                         !.warnings = IF TruthyNumber(amount)
                                         /\ f.confidence < HIGH_CONFIDENCE
                                      THEN Append(@, AmountWarning)
                                      ELSE @ ]
    ELSE st

GateCurrency(f, st) ==
    IF Truthy(f.value) THEN [ st EXCEPT !.currency = f.value ] ELSE st

\* GateOrder with the amount gated before the due date.
GateOrderAmountFirst == <<"biller_name", "amount_due", "due_date", "currency">>

\* The order in which scanBill reads the properties of parsed.
GateOrder == <<"biller_name", "due_date", "amount_due", "currency">>

Gate(name, f, st) ==
    CASE name = "biller_name" -> GateBillerName(f, st)
      [] name = "due_date"    -> GateDueDate(f, st)
      [] name = "amount_due"  -> GateAmount(f, st)
      [] name = "currency"    -> GateCurrency(f, st)

\* Number of properties read before one is found missing (reading a
\* property of undefined throws a TypeError); 4 when none is missing.
RECURSIVE ReadableFrom(_, _)
ReadableFrom(parsed, k) ==
    IF k > Len(GateOrder) \/ ~IsSome(parsed) \/ ~IsSome(Get(parsed)[GateOrder[k]])
    THEN 0
    ELSE 1 + ReadableFrom(parsed, k + 1)

\* The locals after the first k properties went through the gate.
RECURSIVE Gated(_, _, _)
Gated(parsed, st, k) ==
    IF k = 0 THEN st
    ELSE Gate(GateOrder[k], Get(Get(parsed)[GateOrder[k]]), Gated(parsed, st, k - 1))

\* The object returned at the end of the try block.
Success(rawText, st) ==
    LET hasData == Truthy(st.billerName) \/ Truthy(st.dueDate) \/ TruthyNumber(st.amount)
    IN  [ success |-> TRUE, billerName |-> st.billerName, dueDate |-> st.dueDate,
          amount |-> st.amount, currency |-> st.currency,
          rawText |-> Some(Substring0(rawText, RAW_TEXT_ECHO)),
          warnings |-> st.warnings,
          error |-> IF hasData THEN None ELSE Some(MSG_NO_DATA) ]

\* !rawText || rawText.length < 10
TextUnreadable(rawText) == ~Truthy(rawText) \/ Len(Get(rawText)) < MIN_TEXT_LENGTH

\* A return statement of the try block: the promise resolves to r.
Return(w, r) ==
    [ outcome |-> "resolved", thrown |-> None, warnings |-> w, result |-> Some(r) ]

\* Catch reading error.response.status without optional chaining: an error
\* without a response makes the catch block itself throw.
CatchWithoutOptionalChaining(error, w) ==
    IF ~error.hasResponse
    THEN [ outcome |-> "rejected", thrown |-> Some(error), warnings |-> w, result |-> None ]
    ELSE [ outcome |-> "resolved", thrown |-> Some(error), warnings |-> w,
           result |-> Some(Failure(w, IF error.status = 401 THEN MSG_AUTH
                                      ELSE IF error.code = "ECONNABORTED" THEN MSG_TIMEOUT
                                      ELSE MSG_GENERIC)) ]

\* Catch without the ECONNABORTED branch.
CatchWithoutTimeoutBranch(error, w) ==
    [ outcome |-> "resolved", thrown |-> Some(error), warnings |-> w,
      result |-> Some(Failure(w, IF error.hasResponse /\ error.status = 401
                                 THEN MSG_AUTH ELSE MSG_GENERIC)) ]

\* The catch block: one BillScanResult per failure class, never a rethrow.
Catch(error, w) ==
    [ outcome |-> "resolved", thrown |-> Some(error), warnings |-> w,
      result |-> Some(Failure(w,
                    IF error.hasResponse /\ error.status = 401 THEN MSG_AUTH
                    ELSE IF error.code = "ECONNABORTED" THEN MSG_TIMEOUT
                    ELSE MSG_GENERIC)) ]

\* The try block from the destructuring of response.data to its return.
ProcessResponse(d, w) ==
    IF ~IsSome(d) THEN Catch(PlainError("response"), w)
    ELSE IF TextUnreadable(Get(d).rawText)
    THEN Return(w, Failure(w, MSG_NO_TEXT))
    ELSE LET k  == ReadableFrom(Get(d).parsed, 1)
             st == Gated(Get(d).parsed, Locals(w), k)
         IN  IF k < Len(GateOrder)
             THEN Catch(PlainError("parse"), st.warnings)
             ELSE Return(st.warnings, Success(Get(Get(d).rawText), st))

-----------------------------------------------------------------------------
(* scanBill, one action per await *)

\* A scanBill call that has not been made: the values its locals start from.
IdleCall ==
    [ pc |-> "idle", useCamera |-> TRUE, granted |-> FALSE, image |-> None,
      data |-> None, thrown |-> None, warnings |-> <<>>, result |-> None,
      outcome |-> "none" ]

\* new Date(): the moment the screen was opened.
Now == [time |-> <<"now">>]

\* The useState initial values of AddBill, no request of billsAPI.create
\* in flight and no alert on the screen.
InitialForm ==
    [ title |-> <<>>, amount |-> <<>>, dueDate |-> Now, category |-> "electricity",
      scanning |-> FALSE, rawOcrText |-> None, warnings |-> <<>>,
      fieldConfidence |-> [title |-> "none", amount |-> "none", date |-> "none"],
      submitting |-> FALSE, request |-> None,
      alert |-> "none" ]

\* A call of the scanBill without confidence scores that has not been made.
IdleLegacy ==
    [ variant |-> "A", pc |-> "idle", useCamera |-> TRUE, granted |-> FALSE,
      uri |-> FALSE, text |-> None, requests |-> 0, result |-> None,
      currentYear |-> LastClockYear ]

Init ==
    /\ pc = "idle"
    /\ useCamera = TRUE
    /\ granted = FALSE
    /\ image = None
    /\ data = None
    /\ thrown = None
    /\ warnings = <<>>
    /\ result = None
    /\ outcome = "none"
    /\ suspended = IdleCall
    /\ form = InitialForm
    /\ legacy = IdleLegacy

\* The promise settles as s says and the call is over.
Settle(s) ==
    /\ pc' = "done"
    /\ thrown' = s.thrown
    /\ warnings' = s.warnings
    /\ result' = s.result
    /\ outcome' = s.outcome

\* scanBill(u) is entered: const warnings = [] and the first await.
Start(u) ==
    /\ useCamera' = u
    /\ pc' = "requestCamera"
    /\ granted' = FALSE
    /\ image' = None
    /\ data' = None
    /\ thrown' = None
    /\ warnings' = <<>>
    /\ result' = None
    /\ outcome' = "pending"

\* scanBill(u) is called while no call is pending.
Enter(u) == pc = "idle" /\ Start(u)

\* The activation of the call that the steps act on, as one value.
Current ==
    [ pc |-> pc, useCamera |-> useCamera, granted |-> granted, image |-> image,
      data |-> data, thrown |-> thrown, warnings |-> warnings,
      result |-> result, outcome |-> outcome ]

\* scanBill(useCamera) is called.
ScanBill ==
    /\ \E u \in BOOLEAN : Enter(u)
    /\ UNCHANGED <<suspended, form, legacy>>

\* requestPermissions: ImagePicker.requestCameraPermissionsAsync() resolves.
RequestCameraPermissions ==
    /\ pc = "requestCamera"
    /\ \E g \in BOOLEAN : granted' = g
    /\ pc' = "requestMedia"
    /\ UNCHANGED <<useCamera, image, data, thrown, warnings, result, outcome>>
    /\ UNCHANGED <<suspended, form, legacy>>

\* requestPermissions: ImagePicker.requestMediaLibraryPermissionsAsync()
\* resolves; without any permission pickAndCompressImage returns null.
RequestMediaLibraryPermissions ==
    /\ pc = "requestMedia"
    /\ \E g \in BOOLEAN :
         IF granted \/ g
         THEN /\ pc' = "launch"
              /\ UNCHANGED <<thrown, warnings, result, outcome>>
         ELSE Settle(Return(warnings, Failure(warnings, MSG_NO_PHOTO)))
    /\ granted' = FALSE
    /\ UNCHANGED <<useCamera, image, data>>
    /\ UNCHANGED <<suspended, form, legacy>>

\* Either permission request rejects: the exception reaches scanBill's catch.
RequestPermissionsRejected ==
    /\ pc \in {"requestCamera", "requestMedia"}
    /\ Settle(Catch(PlainError("permission"), warnings))
    /\ UNCHANGED <<useCamera, granted, image, data>>
    /\ UNCHANGED <<suspended, form, legacy>>

\* launchCameraAsync / launchImageLibraryAsync resolves: cancelled or
\* without an asset gives null, otherwise the image goes to compression.
LaunchPicker ==
    /\ pc = "launch"
    /\ \E canceled \in BOOLEAN, hasAsset \in BOOLEAN :
         IF canceled \/ ~hasAsset
         THEN Settle(Return(warnings, Failure(warnings, MSG_NO_PHOTO)))
         ELSE /\ pc' = "manipulate"
              /\ UNCHANGED <<thrown, warnings, result, outcome>>
    /\ UNCHANGED <<useCamera, granted, image, data>>
    /\ UNCHANGED <<suspended, form, legacy>>

\* The picker rejects: no try around it in pickAndCompressImage.
LaunchPickerRejected ==
    /\ pc = "launch"
    /\ Settle(Catch(PlainError("picker"), warnings))
    /\ UNCHANGED <<useCamera, granted, image, data>>
    /\ UNCHANGED <<suspended, form, legacy>>

\* ImageManipulator.manipulateAsync resolves: base64 may be absent ('').
ManipulateImage ==
    /\ pc = "manipulate"
    /\ \E base64 \in {<<>>, <<"b", "6", "4">>} :
         image' = Some([base64 |-> base64, mimeType |-> "image/jpeg"])
    /\ pc' = "getToken"
    /\ UNCHANGED <<useCamera, granted, data, thrown, warnings, result, outcome>>
    /\ UNCHANGED <<suspended, form, legacy>>

\* manipulateAsync rejects: caught inside pickAndCompressImage, which
\* returns null.
ManipulateImageRejected ==
    /\ pc = "manipulate"
    /\ Settle(Return(warnings, Failure(warnings, MSG_NO_PHOTO)))
    /\ UNCHANGED <<useCamera, granted, image, data>>
    /\ UNCHANGED <<suspended, form, legacy>>

\* AsyncStorage.getItem('session_token') resolves.
GetToken ==
    /\ pc = "getToken"
    /\ pc' = "post"
    /\ UNCHANGED <<useCamera, granted, image, data, thrown, warnings, result, outcome>>
    /\ UNCHANGED <<suspended, form, legacy>>

GetTokenRejected ==
    /\ pc = "getToken"
    /\ Settle(Catch(PlainError("token"), warnings))
    /\ UNCHANGED <<useCamera, granted, image, data>>
    /\ UNCHANGED <<suspended, form, legacy>>

\* One warnings array for all calls, at module level.
SharedWarnings == suspended.warnings \o warnings

\* const warnings: string[] = [] in scanBill: the array of this call.
CallWarnings == warnings

\* axios.post resolves with the body d and the rest of the try block runs.
Respond(d) ==
    /\ data' = d
    /\ Settle(ProcessResponse(d, CallWarnings))
    /\ UNCHANGED <<useCamera, granted, image>>
    /\ UNCHANGED <<suspended, form, legacy>>

AxiosPost ==
    /\ pc = "post"
    /\ \E d \in ResponseData : Respond(d)

\* axios.post rejects: timeout, HTTP error status or network failure.
AxiosPostRejected ==
    /\ pc = "post"
    /\ \E e \in AxiosErrors : Settle(Catch(e, warnings))
    /\ UNCHANGED <<useCamera, granted, image, data>>
    /\ UNCHANGED <<suspended, form, legacy>>

\* The caller has taken the result and the call's locals are gone; the next
\* scan may start.
Leave ==
    /\ pc = "done"
    /\ pc' = "idle"
    /\ useCamera' = TRUE
    /\ granted' = FALSE
    /\ image' = None
    /\ data' = None
    /\ thrown' = None
    /\ warnings' = <<>>
    /\ result' = None
    /\ outcome' = "none"

Done ==
    /\ Leave
    /\ UNCHANGED <<suspended, form, legacy>>

Next ==
    \/ ScanBill
    \/ RequestCameraPermissions
    \/ RequestMediaLibraryPermissions
    \/ RequestPermissionsRejected
    \/ LaunchPicker
    \/ LaunchPickerRejected
    \/ ManipulateImage
    \/ ManipulateImageRejected
    \/ GetToken
    \/ GetTokenRejected
    \/ AxiosPost
    \/ AxiosPostRejected
    \/ Done

Spec == Init /\ [][Next]_vars

-----------------------------------------------------------------------------
(* The AddBill screen (add-bill.tsx) *)

getConfidenceLevel(confidence) ==
    IF confidence >= HIGH_CONFIDENCE THEN "high"
    ELSE IF confidence >= LOW_CONFIDENCE THEN "medium"
    ELSE "low"

\* String.prototype.toLowerCase over the letters of the Latin alphabet.
UpperCase == <<"A", "B", "C", "D", "E", "F", "G", "H", "I", "J", "K", "L", "M",
               "N", "O", "P", "Q", "R", "S", "T", "U", "V", "W", "X", "Y", "Z">>
LowerCase == <<"a", "b", "c", "d", "e", "f", "g", "h", "i", "j", "k", "l", "m",
               "n", "o", "p", "q", "r", "s", "t", "u", "v", "w", "x", "y", "z">>

Lower(c) ==
    IF \E i \in DOMAIN UpperCase : UpperCase[i] = c
    THEN LowerCase[CHOOSE i \in DOMAIN UpperCase : UpperCase[i] = c]
    ELSE c

toLowerCase(s) == [i \in DOMAIN s |-> Lower(s[i])]

\* Object.entries(BILLER_TO_CATEGORY), in insertion order.  The keys are
\* spelled as the file stores them: the Turkish letters of six keys are
\* stored as two Latin-1 characters each ("A*" is the A with ring, "Y:" the Y
\* with diaeresis, "A~" the A with tilde, "1/4" the quarter sign).
BILLER_TO_CATEGORY ==
    << [key |-> <<"e", "n", "e", "r", "j", "i", "s", "a">>, cat |-> "electricity"],
       [key |-> <<"t", "e", "d", "a", "A*", "Y:">>, cat |-> "electricity"],
       [key |-> <<"b", "e", "d", "a", "A*", "Y:">>, cat |-> "electricity"],
       [key |-> <<"a", "y", "d", "e", "m">>, cat |-> "electricity"],
       [key |-> <<"i", "s", "k", "i">>, cat |-> "water"],
       [key |-> <<"a", "s", "k", "i">>, cat |-> "water"],
       [key |-> <<"i", "z", "s", "u">>, cat |-> "water"],
       [key |-> <<"b", "u", "s", "k", "i">>, cat |-> "water"],
       [key |-> <<"d", "e", "n", "i", "z", "l", "i">>, cat |-> "water"],
       [key |-> <<"i", "g", "d", "a", "A*", "Y:">>, cat |-> "gas"],
       [key |-> <<"e", "g", "e", "g", "a", "z">>, cat |-> "gas"],
       [key |-> <<"b", "a", "A*", "Y:", "k", "e", "n", "t", "g", "a", "z">>, cat |-> "gas"],
       [key |-> <<"t", "A~", "1/4", "r", "k", " ", "t", "e", "l", "e", "k", "o", "m">>, cat |-> "internet"],
       [key |-> <<"s", "u", "p", "e", "r", "o", "n", "l", "i", "n", "e">>, cat |-> "internet"],
       [key |-> <<"t", "u", "r", "k", "n", "e", "t">>, cat |-> "internet"],
       [key |-> <<"t", "u", "r", "k", "c", "e", "l", "l">>, cat |-> "phone"],
       [key |-> <<"v", "o", "d", "a", "f", "o", "n", "e">>, cat |-> "phone"] >>

\* The last entry of the table whose key the name includes.
LastEntry(table, lower) ==
    IF \E j \in DOMAIN table : Includes(lower, table[j].key)
    THEN CHOOSE j \in DOMAIN table :
            /\ Includes(lower, table[j].key)
            /\ \A k \in DOMAIN table : k > j => ~Includes(lower, table[k].key)
    ELSE 0

\* The for loop of detectCategory: index of the first entry of the table
\* whose key the name includes, 0 when there is none.
FirstEntry(table, lower) ==
    IF \E j \in DOMAIN table : Includes(lower, table[j].key)
    THEN CHOOSE j \in DOMAIN table :
            /\ Includes(lower, table[j].key)
            /\ \A k \in DOMAIN table : k < j => ~Includes(lower, table[k].key)
    ELSE 0

detectCategory(billerName) ==
    LET lower == toLowerCase(billerName)
        i == FirstEntry(BILLER_TO_CATEGORY, lower)
    IN  IF i > 0 THEN BILLER_TO_CATEGORY[i].cat
        ELSE IF Includes(lower, <<"e", "l", "e", "k", "t", "r", "i", "k">>) THEN "electricity"
        ELSE IF Includes(lower, <<"s", "u">>) THEN "water"
        ELSE IF Includes(lower, <<"g", "a", "z">>) THEN "gas"
        ELSE IF Includes(lower, <<"i", "n", "t", "e", "r", "n", "e", "t">>)
                \/ Includes(lower, <<"f", "i", "b", "e", "r">>) THEN "internet"
        ELSE IF Includes(lower, <<"t", "e", "l", "e", "f", "o", "n">>)
                \/ Includes(lower, <<"g", "s", "m">>) THEN "phone"
        ELSE "electricity"

\* CATEGORY_NAMES[cat] of utils/constants for the categories of detectCategory.
CATEGORY_NAMES(cat) ==
    CASE cat = "electricity" -> "Elektrik"
      [] cat = "water"       -> "Su"
      [] cat = "internet"    -> "Internet"
      [] cat = "phone"       -> "Telefon"
      [] cat = "gas"         -> "Dogalgaz"

DigitChars == <<"0", "1", "2", "3", "4", "5", "6", "7", "8", "9">>

\* The decimal digits of a natural number.
RECURSIVE Decimal(_)
Decimal(n) ==
    IF n < 10 THEN << DigitChars[n + 1] >>
    ELSE Append(Decimal(n \div 10), DigitChars[(n % 10) + 1])

\* The two fraction digits after a decimal comma.
toFixed2WithComma(n) ==
    Decimal(n.val \div 100)
        \o <<",", DigitChars[((n.val \div 10) % 10) + 1], DigitChars[(n.val % 10) + 1]>>

\* Number.prototype.toFixed(2) of a number held in hundredths.
toFixed2(n) ==
    Decimal(n.val \div 100)
        \o <<".", DigitChars[((n.val \div 10) % 10) + 1], DigitChars[(n.val % 10) + 1]>>

\* Strings that name no date.
UnparsableDates == { <<"2025-13-45">> }

\* new Date(s) of an ISO date string; getTime() is NaN when s names no date.
NewDate(s) == [time |-> s]

isNaNDate(d) == d.time \in UnparsableDates

\* result.warnings.some(w => w.includes(word)) for the three words of
\* handleScanResult.  A word is found inside a token of a warning literal
\* or spelled by the characters of an interpolated name.  The first word is
\* stored in add-bill.tsx as "Kurum adA:+-" (the dotless i as two Latin-1
\* characters), which no literal of scanBill contains.
SomeIncludes(ws, word) ==
    \E k \in DOMAIN ws :
        CASE word = "Kurum adi" -> Includes(ws[k], <<"K", "u", "r", "u", "m", " ", "a", "d", "A:", "+-">>)
          [] word = "Tutar"     -> "Tutari" \in Range(ws[k])
                                       \/ Includes(ws[k], <<"T", "u", "t", "a", "r">>)
          [] word = "tarih"     -> "tarihini" \in Range(ws[k])
                                       \/ Includes(ws[k], <<"t", "a", "r", "i", "h">>)

\* FailureBranch that also empties the title and the amount.
FailureBranchClearing(f, r) ==
    [ f EXCEPT !.alert = "error", !.title = <<>>, !.amount = <<>> ]

\* The else branch of handleScanResult: the error alert and nothing else.
FailureBranch(f, r) == [ f EXCEPT !.alert = "error" ]

\* handleScanResult(result): the state hooks after the handler has run.
handleScanResult(f, r) ==
    LET f1 == [ f EXCEPT !.warnings = r.warnings,
                         !.rawOcrText = IF Truthy(r.rawText) THEN r.rawText ELSE @ ]
        hasBiller == Truthy(r.billerName)
        hasAmount == IsSome(r.amount) /\ ~Get(r.amount).nan /\ Get(r.amount).val > 0
        d == NewDate(Get(r.dueDate))
        hasDate == Truthy(r.dueDate) /\ ~isNaNDate(d)
        cat == detectCategory(Get(r.billerName))
        hasBillerWarning == SomeIncludes(r.warnings, "Kurum adi")
        hasAmountWarning == SomeIncludes(r.warnings, "Tutar")
        hasDateWarning == SomeIncludes(r.warnings, "tarih")
        newConfidence ==
            [ title  |-> IF ~hasBiller THEN "none"
                         ELSE IF hasBillerWarning THEN "medium" ELSE "high",
              amount |-> IF ~hasAmount THEN "none"
                         ELSE IF hasAmountWarning THEN "medium" ELSE "high",
              date   |-> IF ~hasDate THEN "none"
                         ELSE IF hasDateWarning THEN "medium" ELSE "high" ]
        hasAnyData == hasBiller \/ TruthyNumber(r.amount) \/ Truthy(r.dueDate)
        hasMediumConfidence == \E k \in DOMAIN newConfidence : newConfidence[k] = "medium"
    IN  IF r.success
        THEN [ f1 EXCEPT
                 !.category = IF hasBiller THEN cat ELSE @,
                 !.title = IF hasBiller
                           THEN Get(r.billerName) \o <<" ", CATEGORY_NAMES(cat)>>
                           ELSE @,
                 !.amount = IF hasAmount THEN toFixed2(Get(r.amount)) ELSE @,
                 !.dueDate = IF hasDate THEN d ELSE @,
                 !.fieldConfidence = newConfidence,
                 !.alert = IF hasMediumConfidence THEN "checkFields"
                           ELSE IF hasAnyData THEN "filled"
                           ELSE IF IsSome(r.error) THEN "notice"
                           ELSE @ ]
        ELSE FailureBranch(f1, r)

\* The bodies the OCR service answers a scan of the form with.
FormBillerNames ==
    { <<"E", "n", "e", "r", "j", "i", "s", "a">>,
      <<"T", "u", "r", "k", "c", "e", "l", "l", " ", "S", "u", "p", "e", "r", "o", "n", "l", "i", "n", "e">>,
      <<"M", "i", "g", "r", "o", "s">>,
      <<"T", "u", "t", "a", "r", " ", "G", "a", "z">> }

FormParsedObjects ==
    [ biller_name : { Some(f) : f \in { [value |-> None, confidence |-> 0] }
                        \cup { [value |-> Some(n), confidence |-> c] :
                                 n \in FormBillerNames, c \in {40, 70} } },
      due_date    : { Some(f) : f \in { [value |-> None, confidence |-> 0],
                                        [value |-> Some(<<"2025-06-12">>), confidence |-> 70],
                                        [value |-> Some(<<"2025-13-45">>), confidence |-> 70] } },
      amount_due  : { Some(f) : f \in { [value |-> None, confidence |-> 0],
                                        [value |-> Some(<<"3", "5", "0", ".", "7", "5">>), confidence |-> 40],
                                        [value |-> Some(<<"3", "5", "0", ".", "7", "5">>), confidence |-> 70] } },
      currency    : { Some([value |-> Some(<<"TRY">>), confidence |-> 100]) } ]

FormResponseData ==
    { None, Some([rawText |-> Some(TextOfLen(3)), parsed |-> None]) }
        \cup { Some([rawText |-> Some(TextOfLen(MIN_TEXT_LENGTH)), parsed |-> Some(p)]) :
                 p \in FormParsedObjects }

\* A scan button without the disabled property.
ScanButtonNeverDisabled == FALSE

\* disabled={scanning} of the scan button.
ScanButtonDisabled == form.scanning

\* showScanOptions: the scan button is pressed and the alert with the three
\* choices opens.
ShowScanOptions ==
    /\ ~ScanButtonDisabled
    /\ form.alert = "none"
    /\ form' = [form EXCEPT !.alert = "scanOptions"]
    /\ UNCHANGED <<call, suspended, legacy>>

\* An alert is closed: Iptal of the scan options, Tamam of a message.
DismissAlert ==
    /\ form.alert # "none"
    /\ form' = [form EXCEPT !.alert = "none"]
    /\ UNCHANGED <<call, suspended, legacy>>

\* handleScanBill(u), from one of the two scan choices, up to its await:
\* scanBillFromGallery() is scanBill(false).
HandleScanBill ==
    /\ form.alert = "scanOptions"
    /\ pc # "idle" => suspended = IdleCall
    /\ \E u \in BOOLEAN : Start(u)
    /\ suspended' = IF pc = "idle" THEN suspended ELSE Current
    /\ form' = [form EXCEPT !.alert = "none", !.scanning = TRUE,
                            !.rawOcrText = None, !.warnings = <<>>]
    /\ UNCHANGED legacy

\* handleScanBill with setScanning(false) in the success branch of
\* handleScanResult instead of a finally block.
HandleScanResultWithoutFinally ==
    /\ Leave
    /\ form' = IF outcome = "resolved"
                THEN [ handleScanResult(form, Get(result))
                       EXCEPT !.scanning = IF Get(result).success THEN FALSE ELSE @ ]
                ELSE [form EXCEPT !.alert = "error"]
    /\ UNCHANGED <<suspended, legacy>>

\* handleScanBill after its await: handleScanResult on a result, the catch
\* block on a rejection, and the finally block.
HandleScanResult ==
    /\ Leave
    /\ form' = [ (IF outcome = "resolved"
                  THEN handleScanResult(form, Get(result))
                  ELSE [form EXCEPT !.alert = "error"])
                 EXCEPT !.scanning = FALSE ]
    /\ UNCHANGED <<suspended, legacy>>

\* axios.post resolves for a scan of the form.
FormResponds ==
    /\ pc = "post"
    /\ \E d \in FormResponseData : Respond(d)

FormNext ==
    \/ ShowScanOptions
    \/ DismissAlert
    \/ HandleScanBill
    \/ RequestCameraPermissions
    \/ RequestMediaLibraryPermissions
    \/ RequestPermissionsRejected
    \/ LaunchPicker
    \/ LaunchPickerRejected
    \/ ManipulateImage
    \/ ManipulateImageRejected
    \/ GetToken
    \/ GetTokenRejected
    \/ FormResponds
    \/ AxiosPostRejected
    \/ HandleScanResult

FormSpec == Init /\ [][FormNext]_vars

\* The bodies the OCR service answers with where the scans are followed to
\* their end: no body, a text too short, and a text with or without an
\* amount, of medium or high confidence.
LiveParsedObjects ==
    [ biller_name : { Some([value |-> None, confidence |-> 0]) },
      due_date    : { Some([value |-> None, confidence |-> 0]) },
      amount_due  : { Some([value |-> None, confidence |-> 0]),
                      Some([value |-> Some(<<"3", "5", "0", ".", "7", "5">>), confidence |-> 40]),
                      Some([value |-> Some(<<"3", "5", "0", ".", "7", "5">>), confidence |-> 70]) },
      currency    : { Some([value |-> Some(<<"TRY">>), confidence |-> 100]) } ]

LiveResponseData ==
    { None, Some([rawText |-> Some(TextOfLen(3)), parsed |-> None]) }
        \cup { Some([rawText |-> Some(TextOfLen(MIN_TEXT_LENGTH)), parsed |-> Some(p)]) :
                 p \in LiveParsedObjects }

LiveResponds ==
    /\ pc = "post"
    /\ \E d \in LiveResponseData : Respond(d)

\* The awaits of a scan settle: the permission requests, the picker, the
\* image manipulation, the token read and the OCR call return or fail, and
\* the continuation of handleScanBill runs.
ScanProceeds ==
    \/ RequestCameraPermissions
    \/ RequestMediaLibraryPermissions
    \/ RequestPermissionsRejected
    \/ LaunchPicker
    \/ LaunchPickerRejected
    \/ ManipulateImage
    \/ ManipulateImageRejected
    \/ GetToken
    \/ GetTokenRejected
    \/ LiveResponds
    \/ AxiosPostRejected
    \/ HandleScanResult

\* The user presses the scan button, makes a choice or closes an alert.
UserActs ==
    \/ ShowScanOptions
    \/ DismissAlert
    \/ HandleScanBill

FormLiveNext == UserActs \/ ScanProceeds

\* The screen with external calls that eventually return or fail.  The
\* user is free never to press a button.
FormLiveSpec == Init /\ [][FormLiveNext]_vars /\ WF_vars(ScanProceeds)

-----------------------------------------------------------------------------
(* Regular expressions of the extractors *)

\* A pattern is a sequence of elements:
\*   Lit(alts)       one of the literal strings, tried in the order written
\*   Cls(set, m, n)  m to n characters of a class, as many as possible first
\*   Star(body)      (?:body)*, as many repetitions as possible first
\*   Open, Close     the parentheses of capture group 1
Lit(alts) == [k |-> "lit", alts |-> alts]
Cls(set, m, n) == [k |-> "cls", set |-> set, min |-> m, max |-> n]
Star(body) == [k |-> "star", body |-> body]
Open == [k |-> "open"]
Close == [k |-> "close"]

\* A quantifier without an upper limit, beyond the length of any text.
Unlimited == 1000000

\* \s, [:\s], \d, [.,] and [./-].
Space == {" ", "\n", "\t"}
ColonSpace == {":"} \cup Space
DecimalMark == {".", ","}
DateMark == {".", "/", "-"}

NoMatch == [ok |-> FALSE, start |-> 0, end |-> 0, s |-> 0, e |-> 0]

\* The literal lit stands in t from position pos on.
LitAt(lit, t, pos) ==
    /\ pos + Len(lit) - 1 <= Len(t)
    /\ \A j \in 1..Len(lit) : t[pos + j - 1] = lit[j]

\* Number of characters of the class from position pos on, n at most.
RECURSIVE ClassRun(_, _, _, _)
ClassRun(set, t, pos, n) ==
    IF n > 0 /\ pos <= Len(t) /\ t[pos] \in set
    THEN 1 + ClassRun(set, t, pos + 1, n - 1)
    ELSE 0

\* The backtracking matcher: the first way, in the order a backtracking
\* engine tries them, in which the elements of rest match t from pos on.
\* m carries the start of the match and the bounds of group 1 so far.
RECURSIVE MatchHere(_, _, _, _), TryAlts(_, _, _, _, _), TryLens(_, _, _, _, _)
MatchHere(rest, t, pos, m) ==
    IF rest = <<>> THEN [m EXCEPT !.ok = TRUE, !.end = pos]
    ELSE LET el == Head(rest)
         IN  CASE el.k = "lit"   -> TryAlts(rest, t, pos, m, 1)
               [] el.k = "cls"   ->
                    TryLens(rest, t, pos, m, ClassRun(el.set, t, pos, el.max))
               [] el.k = "open"  -> MatchHere(Tail(rest), t, pos, [m EXCEPT !.s = pos])
               [] el.k = "close" -> MatchHere(Tail(rest), t, pos, [m EXCEPT !.e = pos])
               [] el.k = "star"  ->
                    LET again == MatchHere(el.body \o rest, t, pos, m)
                    IN  IF again.ok THEN again
                        ELSE MatchHere(Tail(rest), t, pos, m)

TryAlts(rest, t, pos, m, a) ==
    LET alts == Head(rest).alts
    IN  IF a > Len(alts) THEN NoMatch
        ELSE LET r == IF LitAt(alts[a], t, pos)
                      THEN MatchHere(Tail(rest), t, pos + Len(alts[a]), m)
                      ELSE NoMatch
             IN  IF r.ok THEN r ELSE TryAlts(rest, t, pos, m, a + 1)

TryLens(rest, t, pos, m, n) ==
    IF n < Head(rest).min THEN NoMatch
    ELSE LET r == MatchHere(Tail(rest), t, pos + n, m)
         IN  IF r.ok THEN r ELSE TryLens(rest, t, pos, m, n - 1)

\* RegExp.prototype.exec with lastIndex = from - 1: the leftmost match that
\* starts at position from or later.  start, end, s and e are positions
\* between characters: the match is t[start .. end-1], group 1 t[s .. e-1].
Exec(p, t, from) ==
    LET starts == { i \in from..(Len(t) + 1) :
                      MatchHere(p, t, i, [NoMatch EXCEPT !.start = i]).ok }
        first == CHOOSE i \in starts : \A j \in starts : i <= j
    IN  IF starts = {} THEN NoMatch
        ELSE MatchHere(p, t, first, [NoMatch EXCEPT !.start = first])

\* The matches of a global pattern, left to right and not overlapping:
\* [...t.matchAll(p)], and the starts and ends of t.match(p).
RECURSIVE MatchAll(_, _, _)
MatchAll(p, t, from) ==
    LET r == Exec(p, t, from)
    IN  IF ~r.ok THEN <<>>
        ELSE <<r>> \o MatchAll(p, t, IF r.end > r.start THEN r.end ELSE r.end + 1)

\* The matched text and the text of group 1.
Matched(t, r) == SubSeq(t, r.start, r.end - 1)
Group1(t, r) == SubSeq(t, r.s, r.e - 1)

-----------------------------------------------------------------------------
(* The extractors of the scanBill without confidence scores: variant A is *)
(* ocrService.ts lines 1-310, variant B is part_007 lines 182-458         *)

\* ([0-9]+[.,][0-9]{2})
AmountGroup ==
    << Open, Cls(Digits, 1, Unlimited), Cls(DecimalMark, 1, 1), Cls(Digits, 2, 2), Close >>

\* tl or the lira sign ("TL~").
CurrencyMark == Lit(<< <<"t", "l">>, <<"TL~">> >>)

\* ([0-9]{1,3}(?:\.[0-9]{3})*,[0-9]{2})
GroupedAmount ==
    << Open, Cls(Digits, 1, 3), Star(<< Lit(<< <<".">> >>), Cls(Digits, 3, 3) >>),
       Lit(<< <<",">> >>), Cls(Digits, 2, 2), Close >>

\* AMOUNT_PATTERNS of variant A, in the order of the array.  Flag i is
\* modelled by matching against the lower-cased text.
AMOUNT_PATTERNS ==
    << << Lit(<< <<"t", "o", "p", "l", "a", "m">>,
              <<"t", "u", "t", "a", "r">>,
              <<"o:", "d", "e", "n", "m", "e", "s", "i", " ", "g", "e", "r", "e", "k", "e", "n">>,
              <<"o:", "d", "e", "n", "e", "c", "e", "k", " ", "t", "u", "t", "a", "r">>,
              <<"s", "o", "n", " ", "o:", "d", "e", "m", "e", " ", "t", "u", "t", "a", "r", "i-">>,
              <<"b", "o", "r", "c,", " ", "t", "u", "t", "a", "r", "i-">>,
              <<"t", "a", "h", "a", "k", "k", "u", "k">>,
              <<"n", "e", "t", " ", "t", "u", "t", "a", "r">>,
              <<"g", "e", "n", "e", "l", " ", "t", "o", "p", "l", "a", "m">> >>),
          Cls(ColonSpace, 0, Unlimited), Cls({"TL~"}, 0, 1), Cls(Space, 0, Unlimited) >>
            \o AmountGroup,
       << Lit(<< <<"t", "o", "p", "l", "a", "m">>,
              <<"t", "u", "t", "a", "r">>,
              <<"o:", "d", "e", "n", "m", "e", "s", "i", " ", "g", "e", "r", "e", "k", "e", "n">>,
              <<"o:", "d", "e", "n", "e", "c", "e", "k">> >>),
          Cls(ColonSpace, 0, Unlimited) >>
            \o AmountGroup \o << Cls(Space, 0, Unlimited), CurrencyMark >>,
       AmountGroup \o << Cls(Space, 0, Unlimited), CurrencyMark >>,
       << CurrencyMark, Cls(Space, 0, Unlimited) >> \o AmountGroup,
       << Lit(<< <<"t", "o", "p", "l", "a", "m">>,
              <<"t", "u", "t", "a", "r">> >>),
          Cls(ColonSpace, 0, Unlimited), Cls({"TL~"}, 0, 1), Cls(Space, 0, Unlimited) >>
            \o AmountGroup,
       GroupedAmount >>

\* The patterns array of parseAmount of variant B.
AmountPatternsB ==
    << << Lit(<< <<"t", "o", "p", "l", "a", "m">>,
              <<"t", "u", "t", "a", "r">>,
              <<"o:", "d", "e", "n", "m", "e", "s", "i", " ", "g", "e", "r", "e", "k", "e", "n">>,
              <<"o:", "d", "e", "n", "e", "c", "e", "k">>,
              <<"f", "a", "t", "u", "r", "a", " ", "b", "e", "d", "e", "l", "i">>,
              <<"b", "o", "r", "c,">> >>),
          Cls(ColonSpace, 0, Unlimited), Cls({"TL~"}, 0, 1), Cls(Space, 0, Unlimited) >>
            \o AmountGroup,
       AmountGroup \o << Cls(Space, 0, Unlimited), CurrencyMark >>,
       << CurrencyMark, Cls(Space, 0, Unlimited) >> \o AmountGroup,
       GroupedAmount >>

\* (\d{1,2}[./-]\d{1,2}[./-]\d{2,4}) without the parentheses.
LooseDate ==
    << Cls(Digits, 1, 2), Cls(DateMark, 1, 1), Cls(Digits, 1, 2), Cls(DateMark, 1, 1),
       Cls(Digits, 2, 4) >>

\* (\d{2}[.]\d{2}[.]\d{4}) and (\d{2}[/]\d{2}[/]\d{4})
BareDate(mark) ==
    << Open, Cls(Digits, 2, 2), Cls({mark}, 1, 1), Cls(Digits, 2, 2), Cls({mark}, 1, 1),
       Cls(Digits, 4, 4), Close >>

\* DATE_PATTERNS of variant A.
DATE_PATTERNS ==
    << << Lit(<< <<"s", "o", "n", " ", "o:", "d", "e", "m", "e", " ", "t", "a", "r", "i", "h", "i">>,
              <<"s", "o", "n", " ", "o:", "d", "e", "m", "e">>,
              <<"v", "a", "d", "e", " ", "t", "a", "r", "i", "h", "i">>,
              <<"v", "a", "d", "e">>,
              <<"o:", "d", "e", "m", "e", " ", "t", "a", "r", "i", "h", "i">>,
              <<"s", ".", "o:", ".", "t">> >>),
          Cls(ColonSpace, 0, Unlimited), Open >> \o LooseDate \o << Close >>,
       BareDate("."),
       BareDate("/") >>

\* The patterns array of parseDueDate of variant B.
DatePatternsB ==
    << << Lit(<< <<"s", "o", "n", " ", "o:", "d", "e", "m", "e">>,
              <<"v", "a", "d", "e">>,
              <<"o:", "d", "e", "m", "e", " ", "t", "a", "r", "i", "h", "i">>,
              <<"s", ".", "o:", ".", "t">> >>),
          Cls(ColonSpace, 0, Unlimited), Open >> \o LooseDate \o << Close >>,
       BareDate(".") >>

\* CATEGORY_KEYWORDS of variant A.
CATEGORY_KEYWORDS ==
    << [ cat |-> "electricity",
         keywords |-> << <<"e", "l", "e", "k", "t", "r", "i", "k">>,
                       <<"e", "n", "e", "r", "j", "i">>,
                       <<"a", "y", "d", "e", "m">>,
                       <<"e", "n", "e", "r", "j", "i", "s", "a">>,
                       <<"t", "e", "d", "a", "s,">>,
                       <<"b", "a", "s,", "k", "e", "n", "t">>,
                       <<"b", "e", "d", "a", "s,">>,
                       <<"g", "e", "d", "i", "z">>,
                       <<"t", "o", "r", "o", "s", "l", "a", "r">>,
                       <<"d", "i", "c", "l", "e">>,
                       <<"v", "a", "n", "g", "o:", "l", "u:">>,
                       <<"a", "k", "e", "d", "a", "s,">>,
                       <<"a", "k", "d", "e", "n", "i", "z">>,
                       <<"y", "e", "s,", "i", "l", "i-", "r", "m", "a", "k">>,
                       <<"c,", "o", "r", "u", "h">>,
                       <<"f", "i-", "r", "a", "t">>,
                       <<"k", "a", "y", "s", "e", "r", "i">>,
                       <<"m", "e", "r", "a", "m">>,
                       <<"o", "s", "m", "a", "n", "g", "a", "z", "i">>,
                       <<"s", "a", "k", "a", "r", "y", "a">>,
                       <<"t", "r", "a", "k", "y", "a">>,
                       <<"u", "l", "u", "d", "a", "g^">> >> ],
       [ cat |-> "water",
         keywords |-> << <<"s", "u">>,
                       <<"i", "s", "k", "i">>,
                       <<"a", "s", "k", "i">>,
                       <<"i", "z", "s", "u">>,
                       <<"b", "u", "s", "k", "i">>,
                       <<"d", "e", "s", "k", "i">>,
                       <<"m", "e", "s", "k", "i">>,
                       <<"k", "a", "s", "k", "i">>,
                       <<"k", "o", "s", "k", "i">>,
                       <<"s", "a", "t", "s", "o">>,
                       <<"a", "s", "a", "t">>,
                       <<"m", "u", "s", "k", "i">> >> ],
       [ cat |-> "gas",
         keywords |-> << <<"d", "o", "g^", "a", "l", "g", "a", "z">>,
                       <<"g", "a", "z">>,
                       <<"i", "g", "d", "a", "s,">>,
                       <<"e", "g", "e", "g", "a", "z">>,
                       <<"b", "a", "s,", "k", "e", "n", "t", "g", "a", "z">>,
                       <<"i", "z", "m", "i", "r", "g", "a", "z">>,
                       <<"b", "u", "r", "s", "a", "g", "a", "z">>,
                       <<"k", "a", "y", "s", "e", "r", "i", "g", "a", "z">>,
                       <<"e", "n", "e", "r", "y", "a">>,
                       <<"a", "g", "d", "a", "s,">>,
                       <<"p", "a", "l", "g", "a", "z">>,
                       <<"s", "a", "m", "g", "a", "z">>,
                       <<"a", "k", "m", "e", "r", "c", "a", "n">>,
                       <<"a", "r", "m", "a", "d", "a", "s,">>,
                       <<"c,", "i", "n", "i", "g", "a", "z">>,
                       <<"n", "e", "t", "g", "a", "z">>,
                       <<"o", "v", "a", "g", "a", "z">>,
                       <<"t", "r", "a", "k", "y", "a", " ", "g", "a", "z">> >> ],
       [ cat |-> "internet",
         keywords |-> << <<"i", "n", "t", "e", "r", "n", "e", "t">>,
                       <<"t", "t", "n", "e", "t">>,
                       <<"t", "u:", "r", "k", " ", "t", "e", "l", "e", "k", "o", "m">>,
                       <<"t", "u", "r", "k", "n", "e", "t">>,
                       <<"s", "u", "p", "e", "r", "o", "n", "l", "i", "n", "e">>,
                       <<"v", "o", "d", "a", "f", "o", "n", "e", " ", "n", "e", "t">>,
                       <<"k", "a", "b", "l", "o", "n", "e", "t">>,
                       <<"d", "-", "s", "m", "a", "r", "t">>,
                       <<"m", "i", "l", "l", "e", "n", "i", "c", "o", "m">>,
                       <<"p", "t", "t", "c", "e", "l", "l">> >> ],
       [ cat |-> "phone",
         keywords |-> << <<"t", "e", "l", "e", "f", "o", "n">>,
                       <<"g", "s", "m">>,
                       <<"m", "o", "b", "i", "l">>,
                       <<"c", "e", "p">>,
                       <<"t", "u", "r", "k", "c", "e", "l", "l">>,
                       <<"v", "o", "d", "a", "f", "o", "n", "e">>,
                       <<"t", "u:", "r", "k", " ", "t", "e", "l", "e", "k", "o", "m">>,
                       <<"b", "i", "m", "c", "e", "l", "l">>,
                       <<"p", "t", "t", "c", "e", "l", "l">>,
                       <<"h", "a", "t">>,
                       <<"k", "o", "n", "t", "o:", "r">> >> ],
       [ cat |-> "subscriptions",
         keywords |-> << <<"n", "e", "t", "f", "l", "i", "x">>,
                       <<"s", "p", "o", "t", "i", "f", "y">>,
                       <<"y", "o", "u", "t", "u", "b", "e">>,
                       <<"a", "m", "a", "z", "o", "n">>,
                       <<"d", "i", "s", "n", "e", "y">>,
                       <<"e", "x", "x", "e", "n">>,
                       <<"b", "l", "u", " ", "t", "v">>,
                       <<"g", "a", "i", "n">>,
                       <<"a", "b", "o", "n", "e", "l", "i", "k">>,
                       <<"p", "r", "e", "m", "i", "u", "m">>,
                       <<"a", "p", "p", "l", "e">>,
                       <<"g", "o", "o", "g", "l", "e", " ", "p", "l", "a", "y">>,
                       <<"x", "b", "o", "x">>,
                       <<"p", "l", "a", "y", "s", "t", "a", "t", "i", "o", "n">>,
                       <<"n", "i", "n", "t", "e", "n", "d", "o">> >> ],
       [ cat |-> "rent",
         keywords |-> << <<"k", "i", "r", "a">>,
                       <<"k", "o", "n", "u", "t">>,
                       <<"d", "a", "i", "r", "e">>,
                       <<"e", "v">>,
                       <<"a", "p", "a", "r", "t", "m", "a", "n">> >> ],
       [ cat |-> "market",
         keywords |-> << <<"m", "a", "r", "k", "e", "t">>,
                       <<"m", "i", "g", "r", "o", "s">>,
                       <<"a", "1", "0", "1">>,
                       <<"b", "i", "m">>,
                       <<"s,", "o", "k">>,
                       <<"c", "a", "r", "r", "e", "f", "o", "u", "r">>,
                       <<"m", "e", "t", "r", "o">>,
                       <<"f", "i", "l", "e">>,
                       <<"m", "a", "c", "r", "o">>,
                       <<"h", "a", "p", "p", "y", " ", "c", "e", "n", "t", "e", "r">> >> ] >>

\* CATEGORY_KEYWORDS of variant B.
CategoryKeywordsB ==
    << [ cat |-> "electricity",
         keywords |-> << <<"e", "l", "e", "k", "t", "r", "i", "k">>,
                       <<"e", "n", "e", "r", "j", "i">>,
                       <<"a", "y", "d", "e", "m">>,
                       <<"e", "n", "e", "r", "j", "i", "s", "a">>,
                       <<"t", "e", "d", "a", "s,">>,
                       <<"b", "a", "s,", "k", "e", "n", "t">>,
                       <<"b", "e", "d", "a", "s,">>,
                       <<"g", "e", "d", "i", "z">>,
                       <<"t", "o", "r", "o", "s", "l", "a", "r">>,
                       <<"d", "i", "c", "l", "e">>,
                       <<"k", "w">>,
                       <<"k", "w", "h">>,
                       <<"s", "a", "y", "a", "c,">> >> ],
       [ cat |-> "water",
         keywords |-> << <<"s", "u">>,
                       <<"i", "s", "k", "i">>,
                       <<"a", "s", "k", "i">>,
                       <<"i", "z", "s", "u">>,
                       <<"b", "u", "s", "k", "i">>,
                       <<"d", "e", "s", "k", "i">>,
                       <<"m", "e", "s", "k", "i">>,
                       <<"k", "a", "s", "k", "i">>,
                       <<"k", "o", "s", "k", "i">>,
                       <<"m", "^3">>,
                       <<"m", "e", "t", "r", "e", "k", "u:", "p">> >> ],
       [ cat |-> "gas",
         keywords |-> << <<"d", "o", "g^", "a", "l", "g", "a", "z">>,
                       <<"g", "a", "z">>,
                       <<"i", "g", "d", "a", "s,">>,
                       <<"e", "g", "e", "g", "a", "z">>,
                       <<"b", "a", "s,", "k", "e", "n", "t", "g", "a", "z">>,
                       <<"i", "z", "m", "i", "r", "g", "a", "z">>,
                       <<"b", "u", "r", "s", "a", "g", "a", "z">> >> ],
       [ cat |-> "internet",
         keywords |-> << <<"i", "n", "t", "e", "r", "n", "e", "t">>,
                       <<"t", "t", "n", "e", "t">>,
                       <<"t", "u:", "r", "k", " ", "t", "e", "l", "e", "k", "o", "m">>,
                       <<"t", "u", "r", "k", "n", "e", "t">>,
                       <<"s", "u", "p", "e", "r", "o", "n", "l", "i", "n", "e">>,
                       <<"v", "o", "d", "a", "f", "o", "n", "e", " ", "n", "e", "t">>,
                       <<"f", "i", "b", "e", "r">>,
                       <<"m", "b", "p", "s">> >> ],
       [ cat |-> "phone",
         keywords |-> << <<"t", "e", "l", "e", "f", "o", "n">>,
                       <<"g", "s", "m">>,
                       <<"m", "o", "b", "i", "l">>,
                       <<"c", "e", "p">>,
                       <<"t", "u", "r", "k", "c", "e", "l", "l">>,
                       <<"v", "o", "d", "a", "f", "o", "n", "e">>,
                       <<"h", "a", "t">>,
                       <<"k", "o", "n", "t", "o:", "r">> >> ],
       [ cat |-> "subscriptions",
         keywords |-> << <<"n", "e", "t", "f", "l", "i", "x">>,
                       <<"s", "p", "o", "t", "i", "f", "y">>,
                       <<"y", "o", "u", "t", "u", "b", "e">>,
                       <<"a", "m", "a", "z", "o", "n">>,
                       <<"d", "i", "s", "n", "e", "y">>,
                       <<"e", "x", "x", "e", "n">>,
                       <<"a", "b", "o", "n", "e", "l", "i", "k">> >> ],
       [ cat |-> "rent",
         keywords |-> << <<"k", "i", "r", "a">>,
                       <<"k", "o", "n", "u", "t">>,
                       <<"d", "a", "i", "r", "e">> >> ],
       [ cat |-> "market",
         keywords |-> << <<"m", "a", "r", "k", "e", "t">>,
                       <<"m", "i", "g", "r", "o", "s">>,
                       <<"a", "1", "0", "1">>,
                       <<"b", "i", "m">>,
                       <<"s,", "o", "k">>,
                       <<"c", "a", "r", "r", "e", "f", "o", "u", "r">> >> ] >>

\* categoryOrder of parseCategory of variant A.
categoryOrder ==
    << "electricity", "water", "gas", "internet", "phone", "subscriptions", "rent",
       "market" >>

\* CATEGORY_TITLES of variant B.
CATEGORY_TITLES(cat) ==
    CASE cat = "electricity"   -> "Elektrik Faturasi"
      [] cat = "water"         -> "Su Faturasi"
      [] cat = "gas"           -> "Dogalgaz Faturasi"
      [] cat = "internet"      -> "Internet Faturasi"
      [] cat = "phone"         -> "Telefon Faturasi"
      [] cat = "subscriptions" -> "Abonelik"
      [] cat = "rent"          -> "Kira"
      [] cat = "market"        -> "Market Alisverisi"

\* The plausible amounts, in hundredths: numValue > 1 && numValue < 50000.
MIN_AMOUNT == 100
MAX_AMOUNT == 5000000

\* The plausible years of variant A; variant B has the lower one only.
MIN_YEAR == 2024
MAX_YEAR == 2030

\* Characters of the raw text that variant A echoes.
RAW_TEXT_ECHO_A == 1000

\* s without the characters of set: replace(/\s/g, '') and replace(/\./g, '').
RECURSIVE RemoveAll(_, _)
RemoveAll(s, set) ==
    IF s = <<>> THEN <<>>
    ELSE IF Head(s) \in set THEN RemoveAll(Tail(s), set)
    ELSE <<Head(s)>> \o RemoveAll(Tail(s), set)

\* replace(c, d) with a string pattern: the first c only.
RECURSIVE ReplaceFirst(_, _, _)
ReplaceFirst(s, c, d) ==
    IF s = <<>> THEN <<>>
    ELSE IF Head(s) = c THEN <<d>> \o Tail(s)
    ELSE <<Head(s)>> \o ReplaceFirst(Tail(s), c, d)

\* The white space removed and the comma left as it is.
NormalizeAmountKeepingComma(group) == RemoveAll(group, Space)

\* The amount string of a match, made ready for parseFloat.
NormalizeAmount(group) ==
    LET amount == RemoveAll(group, Space)
    IN  IF "." \in Range(amount) /\ "," \in Range(amount)
        THEN ReplaceFirst(RemoveAll(amount, {"."}), ",", ".")
        ELSE IF "," \in Range(amount) THEN ReplaceFirst(amount, ",", ".")
        ELSE amount

\* The inner for loop of parseAmount: the first match, from the i-th on,
\* whose number is a plausible amount.
RECURSIVE FirstPlausible(_, _, _)
FirstPlausible(t, matches, i) ==
    IF i > Len(matches) THEN None
    ELSE LET numValue == parseFloat(NormalizeAmount(Group1(t, matches[i])))
         IN  IF /\ Group1(t, matches[i]) # <<>>
                /\ ~isNaN(numValue)
                /\ numValue.val > MIN_AMOUNT /\ numValue.val < MAX_AMOUNT
             THEN Some(toFixed2(numValue))
             ELSE FirstPlausible(t, matches, i + 1)

\* The outer for loop of parseAmount, from the k-th pattern on.
RECURSIVE AmountFrom(_, _, _)
AmountFrom(patterns, t, k) ==
    IF k > Len(patterns) THEN None
    ELSE LET found == FirstPlausible(t, MatchAll(patterns[k], t, 1), 1)
         IN  IF IsSome(found) THEN found ELSE AmountFrom(patterns, t, k + 1)

parseAmount(variant, text) ==
    AmountFrom(IF variant = "A" THEN AMOUNT_PATTERNS ELSE AmountPatternsB,
               toLowerCase(text), 1)

\* String.prototype.split with a character class.
RECURSIVE Split(_, _)
Split(s, set) ==
    IF \E i \in DOMAIN s : s[i] \in set
    THEN LET i == CHOOSE i \in DOMAIN s :
                     s[i] \in set /\ \A j \in 1..(i - 1) : s[j] \notin set
         IN  <<SubSeq(s, 1, i - 1)>> \o Split(SubSeq(s, i + 1, Len(s)), set)
    ELSE <<s>>

\* parseInt: the integer the string starts with, after white space; None is
\* NaN.
parseInt(s) ==
    LET from == ClassRun(Space, s, 1, Len(s)) + 1
        n == DigitRun(s, from)
    IN  IF n = 0 THEN None ELSE Some(DigitsValue(s, from, n))

\* toString().padStart(2, '0')
PadStart2(n) == IF n < 10 THEN <<"0">> \o Decimal(n) ELSE Decimal(n)

\* The validation of the three parts and the ISO string; a comparison with
\* NaN is false.
ValidDate(variant, day, month, year) ==
    IF /\ IsSome(day) /\ IsSome(month) /\ IsSome(year)
       /\ Get(day) >= 1 /\ Get(day) <= 31
       /\ Get(month) >= 1 /\ Get(month) <= 12
       /\ Get(year) >= MIN_YEAR
       /\ variant = "A" => Get(year) <= MAX_YEAR
    THEN Some(Decimal(Get(year)) \o <<"-">> \o PadStart2(Get(month))
                \o <<"-">> \o PadStart2(Get(day)))
    ELSE None

\* if (year < 100) year += 2000
FullYear(y) == IF IsSome(y) /\ Get(y) < 100 THEN Some(Get(y) + 2000) ELSE y

\* The three parts of a date read as integers, then validated.
IsoDate(variant, parts) ==
    ValidDate(variant, parseInt(parts[1]), parseInt(parts[2]),
              FullYear(parseInt(parts[3])))

\* Variant A: the parts of match[1] split at the marks, if there are three.
PartsDate(variant, parts) ==
    IF Len(parts) = 3 THEN IsoDate(variant, parts) ELSE None

\* Variant B: the date matched again inside match[0].
InnerDate(variant, s, dateMatch) ==
    IF dateMatch.ok
    THEN IsoDate(variant, Split(Matched(s, dateMatch), DateMark))
    ELSE None

\* The body of the for loop of parseDueDate for the matches of one pattern.
\* match() with a global pattern returns the matched strings, without
\* groups: variant A reads match[1], the second of them, and splits it;
\* variant B reads match[0], the first, and matches the date in it again.
MatchDate(variant, t, matches) ==
    IF variant = "A"
    THEN IF Len(matches) >= 2 /\ Matched(t, matches[2]) # <<>>
         THEN PartsDate(variant, Split(Matched(t, matches[2]), DateMark))
         ELSE None
    ELSE IF Len(matches) >= 1 /\ Matched(t, matches[1]) # <<>>
         THEN InnerDate(variant, Matched(t, matches[1]),
                        Exec(LooseDate, Matched(t, matches[1]), 1))
         ELSE None

DateOf(variant, p, t) == MatchDate(variant, t, MatchAll(p, t, 1))

\* The first of two optional values that is present.
OrElse(a, b) == IF IsSome(a) THEN a ELSE b

\* The for loop of parseDueDate, from the k-th pattern on.
RECURSIVE DateFrom(_, _, _, _)
DateFrom(variant, patterns, t, k) ==
    IF k > Len(patterns) THEN None
    ELSE OrElse(DateOf(variant, patterns[k], t),
                DateFrom(variant, patterns, t, k + 1))

\* Variant B matches the text as it is, with flag i on the first pattern;
\* the digits and marks of a date have no case.
parseDueDate(variant, text) ==
    DateFrom(variant, IF variant = "A" THEN DATE_PATTERNS ELSE DatePatternsB,
             toLowerCase(text), 1)

\* The keywords of a category in a table.
KeywordsOf(table, cat) ==
    table[CHOOSE i \in DOMAIN table : table[i].cat = cat].keywords

\* The last category, in the order given, one of whose keywords the text
\* includes.
CategoryFromLast(table, order, lowerText, k) ==
    LET hits == { i \in k..Len(order) :
                    \E j \in DOMAIN KeywordsOf(table, order[i]) :
                        Includes(lowerText, KeywordsOf(table, order[i])[j]) }
    IN  IF hits = {} THEN None
        ELSE Some(order[CHOOSE i \in hits : \A h \in hits : h <= i])

\* The first category, in the order given, one of whose keywords the text
\* includes.
RECURSIVE CategoryFrom(_, _, _, _)
CategoryFrom(table, order, lowerText, k) ==
    IF k > Len(order) THEN None
    ELSE IF \E j \in DOMAIN KeywordsOf(table, order[k]) :
                Includes(lowerText, KeywordsOf(table, order[k])[j])
    THEN Some(order[k])
    ELSE CategoryFrom(table, order, lowerText, k + 1)

\* Variant A walks categoryOrder, variant B the entries of its table.
parseCategory(variant, text) ==
    IF variant = "A"
    THEN CategoryFrom(CATEGORY_KEYWORDS, categoryOrder, toLowerCase(text), 1)
    ELSE CategoryFrom(CategoryKeywordsB,
                      [i \in DOMAIN CategoryKeywordsB |-> CategoryKeywordsB[i].cat],
                      toLowerCase(text), 1)

\* String.prototype.trim
RECURSIVE TrimStart(_), TrimEnd(_)
TrimStart(s) == IF s # <<>> /\ Head(s) \in Space THEN TrimStart(Tail(s)) ELSE s
TrimEnd(s) ==
    IF s # <<>> /\ s[Len(s)] \in Space THEN TrimEnd(SubSeq(s, 1, Len(s) - 1)) ELSE s
Trim(s) == TrimEnd(TrimStart(s))

-----------------------------------------------------------------------------
(* The scanBill without confidence scores, one action per await *)

\* Bound: length of the long recognized text.
LongTextLen == 501

\* Recognized texts, by character.  The Turkish letters and the lira sign
\* are single tokens: "o:" is the o with diaeresis, "TL~" the lira sign.

\* An amount with a thousands separator after a label: "toplam: 1.234,56 TL"
LabeledThousandsText ==
    <<"t", "o", "p", "l", "a", "m", ":", " ", "1", ".", "2", "3", "4", ",", "5", "6", " ", "T", "L">>

\* An amount above the plausible range: "99999,00 TL"
ImplausibleAmountText ==
    <<"9", "9", "9", "9", "9", ",", "0", "0", " ", "T", "L">>

\* A labeled date: "son odeme tarihi: 05.03.2025"
LabeledDateText ==
    <<"s", "o", "n", " ", "o:", "d", "e", "m", "e", " ", "t", "a", "r", "i", "h", "i", ":", " ", "0", "5", ".", "0", "3", ".", "2", "0", "2", "5">>

\* A bare date: "05.03.2025"
BareDateText ==
    <<"0", "5", ".", "0", "3", ".", "2", "0", "2", "5">>

\* A date in the year 9999: "vade: 01.01.9999"
FarYearText ==
    <<"v", "a", "d", "e", ":", " ", "0", "1", ".", "0", "1", ".", "9", "9", "9", "9">>

\* A day and a month that do not exist: "vade: 32.13.2025"
NoSuchDayText ==
    <<"v", "a", "d", "e", ":", " ", "3", "2", ".", "1", "3", ".", "2", "0", "2", "5">>

\* Two bare dates: "05.03.2025 06.04.2025"
TwoDatesText ==
    <<"0", "5", ".", "0", "3", ".", "2", "0", "2", "5", " ", "0", "6", ".", "0", "4", ".", "2", "0", "2", "5">>

\* A bill: "ENERJISA son odeme tarihi: 12.06.2025 odenecek tutar: 350,75 TL"
BillText ==
    <<"E", "N", "E", "R", "J", "I", "S", "A", " ", "s", "o", "n", " ", "o:", "d", "e", "m", "e", " ", "t", "a", "r", "i", "h", "i", ":", " ", "1", "2", ".", "0", "6", ".", "2", "0", "2", "5", " ", "o:", "d", "e", "n", "e", "c", "e", "k", " ", "t", "u", "t", "a", "r", ":", " ", "3", "5", "0", ",", "7", "5", " ", "T", "L">>

\* An amount next to the currency mark: "45,90 TL"
SmallAmountText ==
    <<"4", "5", ",", "9", "0", " ", "T", "L">>

\* Three characters: "abc"
ThreeCharText ==
    <<"a", "b", "c">>

\* White space: "   "
BlankText ==
    <<" ", " ", " ">>

\* An amount below 1 after a label, then a larger one: "tutar 0,50 tl 12,00 tl"
TwoAmountsText ==
    <<"t", "u", "t", "a", "r", " ", "0", ",", "5", "0", " ", "t", "l", " ", "1", "2", ",", "0", "0", " ", "t", "l">>

\* The same amount after a label: "tutar: 45,90 TL"
LabeledSmallAmountText ==
    <<"t", "u", "t", "a", "r", ":", " ", "4", "5", ",", "9", "0", " ", "T", "L">>

\* A labeled date that does not exist, then a bare date:
\* "vade: 32.13.2025 05.03.2025"
InvalidThenValidText ==
    <<"v", "a", "d", "e", ":", " ", "3", "2", ".", "1", "3", ".", "2", "0", "2", "5", " ", "0", "5", ".", "0", "3", ".", "2", "0", "2", "5">>

\* A labeled date with a year of two digits: "vade: 05.03.26"
ShortYearText ==
    <<"v", "a", "d", "e", ":", " ", "0", "5", ".", "0", "3", ".", "2", "6">>

\* A keyword of the last category before one of the first: "Migros elektrik"
MarketElectricityText ==
    <<"M", "i", "g", "r", "o", "s", " ", "e", "l", "e", "k", "t", "r", "i", "k">>

\* Two bare dates that no calendar has: "31.04.2025 30.02.2025"
NoSuchDatesText ==
    <<"3", "1", ".", "0", "4", ".", "2", "0", "2", "5", " ", "3", "0", ".", "0", "2", ".", "2", "0", "2", "5">>

\* The recognized texts: the texts above, the empty text and a text longer
\* than the echo of variant B.
LegacyTexts ==
    { LabeledThousandsText,
      ImplausibleAmountText,
      LabeledDateText,
      BareDateText,
      FarYearText,
      NoSuchDayText,
      TwoDatesText,
      BillText,
      SmallAmountText,
      ThreeCharText,
      BlankText,
      TwoAmountsText,
      InvalidThenValidText,
      ShortYearText,
      MarketElectricityText,
      NoSuchDatesText,
      LabeledSmallAmountText,
      <<>>, TextOfLen(LongTextLen) }

LEGACY_NO_PHOTO == "Fotograf secilemedi veya izin verilmedi."
LEGACY_NO_TEXT == "Faturada metin bulunamadi. Lutfen daha net bir fotograf cekin."
LEGACY_NO_DATA_A == "Fatura bilgileri otomatik cikarilamadi. Lutfen kontrol edin veya manuel girin."
LEGACY_NO_DATA_B == "Bilgiler tam cikarilamadi. Lutfen kontrol edin."
LEGACY_GENERIC_A == "Fatura taramasi basarisiz oldu. Lutfen tekrar deneyin."
LEGACY_GENERIC_B == "Tarama basarisiz. Lutfen tekrar deneyin."

\* { success: false, error }
LegacyFailure(msg) ==
    [ success |-> FALSE, amount |-> None, dueDate |-> None, category |-> None,
      title |-> None, rawText |-> None, error |-> Some(msg) ]

\* Step 3 of scanBill: the result built from what the extractors returned.
LegacyResult(variant, text, amount, dueDate, category) ==
    [ success |-> TRUE, amount |-> amount, dueDate |-> dueDate,
      category |-> category,
      title |-> IF variant = "B" /\ IsSome(category)
                THEN Some(CATEGORY_TITLES(Get(category))) ELSE None,
      rawText |-> Some(Substring0(text, IF variant = "A" THEN RAW_TEXT_ECHO_A
                                         ELSE RAW_TEXT_ECHO)),
      error |-> IF IsSome(amount) \/ IsSome(dueDate) \/ IsSome(category)
                THEN None
                ELSE Some(IF variant = "A" THEN LEGACY_NO_DATA_A
                          ELSE LEGACY_NO_DATA_B) ]

\* Steps 2 and 3 of scanBill after the text recognition has answered with
\* rawText: the check of the text, the three extractors and the result.
LegacyScan(variant, rawText) ==
    IF \/ ~Truthy(rawText)
       \/ variant = "A" /\ Len(Trim(Get(rawText))) = 0
       \/ variant = "B" /\ Len(Trim(Get(rawText))) < MIN_TEXT_LENGTH
    THEN LegacyFailure(LEGACY_NO_TEXT)
    ELSE LegacyResult(variant, Get(rawText),
                      parseAmount(variant, Get(rawText)),
                      parseDueDate(variant, Get(rawText)),
                      parseCategory(variant, Get(rawText)))

\* The promise of scanBill resolves to r.
LegacyReturn(r) == legacy' = [legacy EXCEPT !.pc = "done", !.result = Some(r)]

\* pickAndCompressImage returned null.
LegacyNoPhoto == LegacyReturn(LegacyFailure(LEGACY_NO_PHOTO))

\* recognizeText or callOcrApi returns rawText, null when it has no text;
\* scanBill goes on once the promise has resolved.
LegacyRecognized(rawText) ==
    legacy' = [legacy EXCEPT !.pc = "recognized", !.text = rawText]

\* pickAndCompressImage returned a base64 string: an empty one stops the
\* scan, another one goes to the text recognition, whose request is sent.
LegacyAcquired(base64) ==
    IF base64 = <<>> THEN LegacyNoPhoto
    ELSE legacy' = [legacy EXCEPT !.pc = "fetch", !.requests = @ + 1]

\* The text recognition of variant A has failed, or the first service of
\* variant B has: A returns null, B turns to the backend.
LegacyFetchFailed ==
    IF legacy.variant = "A" THEN LegacyRecognized(None)
    ELSE legacy' = [legacy EXCEPT !.pc = "token"]

LegacyStep(at) == legacy.pc = at /\ UNCHANGED <<call, suspended, form>>

\* scanBill(useCamera) of variant A or B is called, in the calendar year
\* currentYear of the device's clock, which no variant reads.
LegacyScanBill ==
    /\ LegacyStep("idle")
    /\ \E v \in {"A", "B"}, u \in BOOLEAN, y \in ClockYears :
         legacy' = [IdleLegacy EXCEPT !.variant = v, !.useCamera = u,
                                      !.pc = "requestCamera",
                                      !.currentYear = y]

LegacyRequestCameraPermissions ==
    /\ LegacyStep("requestCamera")
    /\ \E g \in BOOLEAN :
         legacy' = [legacy EXCEPT !.pc = "requestMedia", !.granted = g]

LegacyRequestMediaLibraryPermissions ==
    /\ LegacyStep("requestMedia")
    /\ \E g \in BOOLEAN :
         IF legacy.granted \/ g
         THEN legacy' = [legacy EXCEPT !.pc = "launch", !.granted = FALSE]
         ELSE LegacyNoPhoto

\* A permission request rejects: the exception reaches scanBill's catch.
LegacyRequestPermissionsRejected ==
    /\ legacy.pc \in {"requestCamera", "requestMedia"}
    /\ UNCHANGED <<call, suspended, form>>
    /\ LegacyReturn(LegacyFailure(IF legacy.variant = "A" THEN LEGACY_GENERIC_A
                                  ELSE LEGACY_GENERIC_B))

LegacyLaunchPicker ==
    /\ LegacyStep("launch")
    /\ \E canceled \in BOOLEAN, hasAsset \in BOOLEAN :
         IF canceled \/ ~hasAsset THEN LegacyNoPhoto
         ELSE legacy' = [legacy EXCEPT !.pc = "manipulate", !.uri = TRUE]

\* The picker rejects: caught in pickAndCompressImage, which returns null.
LegacyLaunchPickerRejected ==
    /\ LegacyStep("launch")
    /\ LegacyNoPhoto

\* manipulateAsync resolves: manipResult.base64 || null.
LegacyManipulateImage ==
    /\ LegacyStep("manipulate")
    /\ \E base64 \in {<<>>, <<"b", "6", "4">>} : LegacyAcquired(base64)

\* manipulateAsync rejects: variant A reads the original file, variant B
\* returns null.
LegacyManipulateImageRejected ==
    /\ LegacyStep("manipulate")
    /\ IF legacy.variant = "A" THEN legacy' = [legacy EXCEPT !.pc = "readFile"]
       ELSE LegacyNoPhoto

\* FileSystem.readAsStringAsync of variant A resolves.
LegacyReadFile ==
    /\ LegacyStep("readFile")
    /\ \E base64 \in {<<>>, <<"b", "6", "4">>} : LegacyAcquired(base64)

LegacyReadFileRejected ==
    /\ LegacyStep("readFile")
    /\ LegacyNoPhoto

\* fetch of the OCR service resolves: variant A stops at a response that is
\* not ok, variant B reads the body of any response.
LegacyFetch ==
    /\ LegacyStep("fetch")
    /\ \E ok \in BOOLEAN :
         IF legacy.variant = "A" /\ ~ok THEN LegacyRecognized(None)
         ELSE legacy' = [legacy EXCEPT !.pc = "json"]

LegacyFetchRejected ==
    /\ LegacyStep("fetch")
    /\ LegacyFetchFailed

\* response.json() resolves: ParsedText of the first result, None when the
\* service reports an error or has no result.  Variant B turns to the
\* backend when the text is missing or empty.
LegacyJson ==
    /\ LegacyStep("json")
    /\ \E t \in {None} \cup {Some(x) : x \in LegacyTexts} :
         IF legacy.variant = "B" /\ ~Truthy(t) THEN LegacyFetchFailed
         ELSE LegacyRecognized(IF Truthy(t) THEN t ELSE None)

LegacyJsonRejected ==
    /\ LegacyStep("json")
    /\ LegacyFetchFailed

\* AsyncStorage.getItem of the backup of variant B resolves and the request
\* to the backend is sent.
LegacyGetToken ==
    /\ LegacyStep("token")
    /\ legacy' = [legacy EXCEPT !.pc = "post", !.requests = @ + 1]

LegacyGetTokenRejected ==
    /\ LegacyStep("token")
    /\ LegacyRecognized(None)

\* axios.post of the backup resolves: response.data.rawText when truthy.
LegacyPost ==
    /\ LegacyStep("post")
    /\ \E t \in {None} \cup {Some(x) : x \in LegacyTexts} :
         LegacyRecognized(IF Truthy(t) THEN t ELSE None)

LegacyPostRejected ==
    /\ LegacyStep("post")
    /\ LegacyRecognized(None)

\* scanBill goes on after the await of the text recognition: the check of
\* the text, the extractors and the return.
LegacyExtract ==
    /\ LegacyStep("recognized")
    /\ LegacyReturn(LegacyScan(legacy.variant, legacy.text))

\* The caller has taken the result.
LegacyDone ==
    /\ LegacyStep("done")
    /\ legacy' = IdleLegacy

LegacyNext ==
    \/ LegacyScanBill
    \/ LegacyRequestCameraPermissions
    \/ LegacyRequestMediaLibraryPermissions
    \/ LegacyRequestPermissionsRejected
    \/ LegacyLaunchPicker
    \/ LegacyLaunchPickerRejected
    \/ LegacyManipulateImage
    \/ LegacyManipulateImageRejected
    \/ LegacyReadFile
    \/ LegacyReadFileRejected
    \/ LegacyFetch
    \/ LegacyFetchRejected
    \/ LegacyJson
    \/ LegacyJsonRejected
    \/ LegacyGetToken
    \/ LegacyGetTokenRejected
    \/ LegacyPost
    \/ LegacyPostRejected
    \/ LegacyExtract
    \/ LegacyDone

LegacySpec == Init /\ [][LegacyNext]_vars

-----------------------------------------------------------------------------
(* Submitting the form *)

\* The amounts, in hundredths, that the OCR service answers the scans of
\* the submitted form with.
SubmitAmounts == {0, 1, 10, 99, 100, 4590, 35075, 123456, 4999999, 10000000}

SubmitParsedObjects ==
    [ biller_name : { Some([value |-> None, confidence |-> 0]),
                      Some([value |-> Some(<<"E", "n", "e", "r", "j", "i", "s", "a">>),
                            confidence |-> 70]) },
      due_date    : { Some([value |-> None, confidence |-> 0]) },
      amount_due  : { Some([value |-> Some(toFixed2(Num(n))), confidence |-> c]) :
                        n \in SubmitAmounts, c \in {40, 70} },
      currency    : { Some([value |-> Some(<<"TRY">>), confidence |-> 100]) } ]

SubmitResponseData ==
    { Some([rawText |-> Some(TextOfLen(MIN_TEXT_LENGTH)), parsed |-> Some(p)]) :
        p \in SubmitParsedObjects }

\* axios.post resolves for a scan of the form that is submitted.
SubmitResponds ==
    /\ pc = "post"
    /\ \E d \in SubmitResponseData : Respond(d)

\* amount.replace(/[^0-9.]/g, '')
KeepDigitsAndPoints(s) == SelectSeq(s, LAMBDA c : c \in Digits \cup {"."})

\* The amount of the request of handleSubmit.
SubmittedAmount(amount) == parseFloat(KeepDigitsAndPoints(amount))

\* disabled={!title.trim() || !amount || submitting} of the submit button.
SubmitButtonDisabled ==
    Trim(form.title) = <<>> \/ form.amount = <<>> \/ form.submitting

\* handleSubmit up to its await: the two checks, each with its alert, then
\* setSubmitting(true) and the request of billsAPI.create.  A comparison
\* with NaN is false.
HandleSubmit ==
    /\ ~SubmitButtonDisabled
    /\ form.alert = "none"
    /\ form' = IF Trim(form.title) = <<>>
                THEN [form EXCEPT !.alert = "error"]
                ELSE IF \/ form.amount = <<>>
                        \/ /\ ~isNaN(parseFloat(form.amount))
                           /\ parseFloat(form.amount).val <= 0
                THEN [form EXCEPT !.alert = "error"]
                ELSE [form EXCEPT
                        !.submitting = TRUE,
                        !.request = Some([ title |-> Trim(form.title),
                                           amount |-> SubmittedAmount(form.amount),
                                           due_date |-> form.dueDate,
                                           category |-> form.category ])]
    /\ UNCHANGED <<call, suspended, legacy>>

\* billsAPI.create resolves or rejects: the alert of the outcome, and the
\* finally block.
CreateSettled ==
    /\ form.submitting
    /\ \E created \in BOOLEAN :
         form' = [form EXCEPT !.alert = IF created THEN "created" ELSE "error",
                              !.request = None,
                              !.submitting = FALSE]
    /\ UNCHANGED <<call, suspended, legacy>>

\* An alert is closed; Tamam of the alert of a created bill leaves the
\* screen, which ends the life of this form.
SubmitDismissAlert ==
    /\ form.alert # "created"
    /\ DismissAlert

SubmitNext ==
    \/ ShowScanOptions
    \/ SubmitDismissAlert
    \/ HandleScanBill
    \/ RequestCameraPermissions
    \/ RequestMediaLibraryPermissions
    \/ RequestPermissionsRejected
    \/ LaunchPicker
    \/ LaunchPickerRejected
    \/ ManipulateImage
    \/ ManipulateImageRejected
    \/ GetToken
    \/ GetTokenRejected
    \/ SubmitResponds
    \/ AxiosPostRejected
    \/ HandleScanResult
    \/ HandleSubmit
    \/ CreateSettled

SubmitSpec == Init /\ [][SubmitNext]_vars

-----------------------------------------------------------------------------
(* Two calls of scanBill at the same time *)

\* The responses of the OCR call for two scans at a time: a biller name and
\* an amount with medium or high confidence, so with or without a warning.
ConcParsedObjects ==
    [ biller_name : { Some([value |-> Some(<<"M", "i", "g", "r", "o", "s">>),
                            confidence |-> c]) : c \in {40, 70} },
      due_date    : { Some([value |-> Some(<<"2025-06-12">>), confidence |-> 70]) },
      amount_due  : { Some([value |-> Some(<<"3", "5", "0", ".", "7", "5">>),
                            confidence |-> c]) : c \in {40, 70} },
      currency    : { Some([value |-> Some(<<"TRY">>), confidence |-> 100]) } ]

ConcResponseData ==
    { None, Some([rawText |-> Some(TextOfLen(3)), parsed |-> None]) }
        \cup { Some([rawText |-> Some(TextOfLen(MIN_TEXT_LENGTH)), parsed |-> Some(p)]) :
                 p \in ConcParsedObjects }

\* scanBill(u) is called, while no call or one call is pending: a pending
\* call stays suspended at its await.
ConcScanBill ==
    /\ pc # "idle" => suspended = IdleCall
    /\ \E u \in BOOLEAN : Start(u)
    /\ suspended' = IF pc = "idle" THEN suspended ELSE Current
    /\ UNCHANGED <<form, legacy>>

\* The event loop turns to the other call: the steps act on its activation
\* from now on.
Switch ==
    /\ suspended # IdleCall
    /\ pc' = suspended.pc
    /\ useCamera' = suspended.useCamera
    /\ granted' = suspended.granted
    /\ image' = suspended.image
    /\ data' = suspended.data
    /\ thrown' = suspended.thrown
    /\ warnings' = suspended.warnings
    /\ result' = suspended.result
    /\ outcome' = suspended.outcome
    /\ suspended' = Current
    /\ UNCHANGED <<form, legacy>>

\* axios.post resolves for one of the two scans.
ConcResponds ==
    /\ pc = "post"
    /\ \E d \in ConcResponseData : Respond(d)

ConcNext ==
    \/ ConcScanBill
    \/ Switch
    \/ RequestCameraPermissions
    \/ RequestMediaLibraryPermissions
    \/ RequestPermissionsRejected
    \/ LaunchPicker
    \/ LaunchPickerRejected
    \/ ManipulateImage
    \/ ManipulateImageRejected
    \/ GetToken
    \/ GetTokenRejected
    \/ ConcResponds
    \/ AxiosPostRejected
    \/ Done

ConcSpec == Init /\ [][ConcNext]_vars

-----------------------------------------------------------------------------
(* Vocabulary of the properties *)

GatedFields == {"biller_name", "due_date", "amount_due"}

\* The call is over and its promise resolved to a result.
Completed == pc = "done" /\ IsSome(result)

\* The OCR call answered with an object that has all four parsed fields.
WellFormedResponse ==
    /\ IsSome(data)
    /\ IsSome(Get(data).parsed)
    /\ \A name \in Range(GateOrder) : IsSome(Get(Get(data).parsed)[name])

\* The ParsedField the response carries for a field.
Input(name) == Get(Get(Get(data).parsed)[name])

\* The text was recognized and has at least 10 characters.
TextLongEnough ==
    /\ IsSome(data)
    /\ IsSome(Get(data).rawText)
    /\ Len(Get(Get(data).rawText)) >= 10

\* The result's property that a parsed field fills.
ResultField(r, name) ==
    CASE name = "biller_name" -> r.billerName
      [] name = "due_date"    -> r.dueDate
      [] name = "amount_due"  -> r.amount
      [] name = "currency"    -> r.currency

Present(r, name) == IsSome(ResultField(r, name))

\* The warning names the field: it opens with the field's Turkish name.  No
\* literal of scanBill names the currency, so a warning about the currency
\* is one that is about none of the other fields.
RECURSIVE Names(_, _)
Names(w, name) ==
    CASE name = "biller_name" -> Len(w) >= 2 /\ SubSeq(w, 1, 2) = <<"Kurum", "adi">>
      [] name = "due_date"    -> Len(w) >= 3 /\ SubSeq(w, 1, 3) = <<"Son", "odeme", "tarihini">>
      [] name = "amount_due"  -> Len(w) >= 1 /\ w[1] = "Tutari"
      [] name = "currency"    -> \A other \in GatedFields : ~Names(w, other)

\* Positions of the warnings about a field.
WarningsAbout(ws, name) == { i \in DOMAIN ws : Names(ws[i], name) }

HasWarning(ws, name) == WarningsAbout(ws, name) # {}

\* The three confidence bands of the gate contract: 0.40 and 0.70.
InLowBand(c) == c < 40
InMediumBand(c) == 40 <= c /\ c < 70
InHighBand(c) == c >= 70

-----------------------------------------------------------------------------
(* Claims *)

\* C1: in every successful result, each of biller name, due date and amount
\* with confidence below 0.40 is absent and has no warning, with confidence
\* in [0.40, 0.70) is present and has a warning naming it, and with
\* confidence of 0.70 or more is present and has no warning.
C1_GateContract ==
    (Completed /\ Get(result).success) =>
        \A name \in GatedFields :
            LET c == Input(name).confidence
                r == Get(result)
            IN  /\ InLowBand(c) => ~Present(r, name) /\ ~HasWarning(r.warnings, name)
                /\ InMediumBand(c) => Present(r, name) /\ HasWarning(r.warnings, name)
                /\ InHighBand(c) => Present(r, name) /\ ~HasWarning(r.warnings, name)

\* C2: the currency obeys the same gate: with confidence below 0.40 it is
\* never in the result, and with confidence in [0.40, 0.70) it is never in
\* the result without a warning.
C2_CurrencyGated ==
    (Completed /\ Get(result).success) =>
        LET c == Input("currency").confidence
            r == Get(result)
        IN  /\ InLowBand(c) => ~Present(r, "currency")
            /\ (InMediumBand(c) /\ Present(r, "currency"))
                   => HasWarning(r.warnings, "currency")

\* The response with the confidence of one field replaced.
WithConfidence(d, name, c) ==
    Some([ Get(d) EXCEPT !.parsed =
             Some([ Get(Get(d).parsed) EXCEPT ![name] =
                      Some([ Get(@) EXCEPT !.confidence = c ]) ]) ])

\* The result of the same scan had the response been d.
ResultFor(d) == Get(ProcessResponse(d, <<>>).result)

\* C3: the gate is monotonic: raising one field's confidence from the
\* medium band to the high band, all else unchanged, leaves no warning about
\* that field and keeps an accepted field accepted, and the level the form
\* reads from the score goes from medium to high; gating the same response
\* again gives the same result.
C3_GateMonotonic ==
    (Completed /\ Get(result).success) =>
        /\ ResultFor(data) = Get(result)
        /\ \A name \in GatedFields :
             InMediumBand(Input(name).confidence) =>
                 \A c \in { h \in Confidences : InHighBand(h) } :
                     LET raised == ResultFor(WithConfidence(data, name, c))
                     IN  /\ raised.success
                         /\ ~HasWarning(raised.warnings, name)
                         /\ Present(Get(result), name) => Present(raised, name)
                         /\ getConfidenceLevel(Input(name).confidence) = "medium"
                         /\ getConfidenceLevel(c) = "high"

\* A successful scan in which a medium-confidence field carries a warning.
C3_Witness ==
    /\ Completed
    /\ Get(result).success
    /\ \E name \in GatedFields :
         /\ InMediumBand(Input(name).confidence)
         /\ HasWarning(Get(result).warnings, name)

\* In ws every warning about field a precedes every warning about field b.
Precedes(ws, a, b) ==
    \A i \in WarningsAbout(ws, a), j \in WarningsAbout(ws, b) : i < j

ValueText(name) == Get(Input(name).value)

\* C5 as stated: every warning names its field and contains the extracted
\* value of that field.
C5_WarningShowsValue ==
    Completed =>
        \A i \in DOMAIN Get(result).warnings :
            \E name \in GatedFields :
                /\ Names(Get(result).warnings[i], name)
                /\ Includes(Get(result).warnings[i], ValueText(name))

\* C5 amended: every warning names the medium-confidence field it is about;
\* the biller warning contains the extracted biller name, the due-date and
\* amount warnings are fixed texts without the value.
C5_WarningNamesField ==
    Completed =>
        \A i \in DOMAIN Get(result).warnings :
            LET w == Get(result).warnings[i]
            IN  \E name \in GatedFields :
                    /\ Names(w, name)
                    /\ InMediumBand(Input(name).confidence)
                    /\ name = "biller_name" => Includes(w, ValueText(name))
                    /\ name # "biller_name" => ~Includes(w, ValueText(name))

\* A result whose warnings include the biller's and another field's.
C5_Witness ==
    /\ Completed
    /\ HasWarning(Get(result).warnings, "biller_name")
    /\ \/ HasWarning(Get(result).warnings, "due_date")
       \/ HasWarning(Get(result).warnings, "amount_due")

\* No property of the result holds an extracted value.
NoFieldPopulated(r) ==
    \A name \in Range(GateOrder) : ~Present(r, name)

\* C6: when the text is recognized and long enough, the result has
\* success=true, and the soft error message is set exactly when none of
\* biller name, due date and amount was accepted into the result.
C6_SoftErrorIffNoField ==
    (Completed /\ WellFormedResponse /\ TextLongEnough) =>
        /\ Get(result).success
        /\ IsSome(Get(result).error)
             <=> (\A name \in GatedFields : ~Present(Get(result), name))

\* C7, in the confidence-gated scanBill: a recognized text that is empty or
\* shorter than 10 characters gives success=false with the no-text error
\* and no field populated.
C7_ShortTextFails ==
    (Completed /\ IsSome(data) /\ ~TextLongEnough) =>
        /\ ~Get(result).success
        /\ Get(result).error = Some(MSG_NO_TEXT)
        /\ NoFieldPopulated(Get(result))

\* The OCR call answered with a text of 3 characters and the scan is over.
C7_Witness ==
    /\ Completed
    /\ IsSome(data)
    /\ IsSome(Get(data).rawText)
    /\ Len(Get(Get(data).rawText)) = 3
    /\ ~Get(result).success

\* C7: in the copies of scanBill without confidence scores too, whenever
\* the recognized text has fewer than 10 characters the scan returns
\* success = false with the error of the unreadable text and no field.
C7_ShortTextFailsInEveryCopy ==
    ( /\ legacy.pc = "done" /\ IsSome(legacy.result)
      /\ IsSome(legacy.text) /\ Len(Get(legacy.text)) < MIN_TEXT_LENGTH )
        => /\ ~Get(legacy.result).success
           /\ Get(legacy.result).error = Some(LEGACY_NO_TEXT)
           /\ Get(legacy.result).amount = None
           /\ Get(legacy.result).dueDate = None
           /\ Get(legacy.result).category = None

\* C8: no exception escapes scanBill: the promise never rejects, and a
\* finished call has resolved to a BillScanResult whichever step failed.
C8_NeverRejects ==
    /\ outcome # "rejected"
    /\ pc = "done" =>
         /\ outcome = "resolved"
         /\ IsSome(result)
         /\ DOMAIN Get(result) = { "success", "billerName", "dueDate", "amount",
                                   "currency", "rawText", "warnings", "error" }
         /\ Get(result).success \in BOOLEAN

\* A step threw, or the response was malformed, and the scan is over.
C8_Witness ==
    /\ pc = "done"
    /\ IsSome(thrown)
    /\ Get(thrown).at \in {"permission", "picker", "token", "post", "response", "parse"}

\* C9: a result with success=false has an error message and none of
\* billerName, dueDate, amount, currency.
C9_FailureHasNoFields ==
    (Completed /\ ~Get(result).success) =>
        /\ IsSome(Get(result).error)
        /\ NoFieldPopulated(Get(result))

\* A scan that failed after the gate had already accepted a field.
C9_Witness ==
    /\ Completed
    /\ ~Get(result).success
    /\ IsSome(thrown)
    /\ Get(thrown).at = "parse"
    /\ Get(result).warnings # <<>>

\* C10: a failed OCR call gives the timeout message for code ECONNABORTED,
\* the authorization message for HTTP 401 and the generic message for any
\* other failure, and the three messages differ.
C10_ErrorPerFailureClass ==
    (Completed /\ IsSome(thrown) /\ Get(thrown).at = "post") =>
        LET e == Get(thrown)
            msg == Get(result).error
        IN  /\ e.code = "ECONNABORTED" => msg = Some(MSG_TIMEOUT)
            /\ (e.hasResponse /\ e.status = 401) => msg = Some(MSG_AUTH)
            /\ (e.code # "ECONNABORTED" /\ ~(e.hasResponse /\ e.status = 401))
                   => msg = Some(MSG_GENERIC)
            /\ Cardinality({MSG_TIMEOUT, MSG_AUTH, MSG_GENERIC}) = 3

\* The OCR call timed out and the scan is over.
C10_Witness ==
    /\ Completed
    /\ IsSome(thrown)
    /\ Get(thrown).code = "ECONNABORTED"
    /\ ~Get(result).success

\* The scan ended in a terminal failure: the promise rejected, or it resolved
\* to a result with success = false.
TerminalFailure ==
    /\ pc = "done"
    /\ outcome = "rejected" \/ (IsSome(result) /\ ~Get(result).success)

\* The handling of a successful result by handleScanBill.
SuccessHandled ==
    /\ pc = "done" /\ pc' = "idle"
    /\ outcome = "resolved" /\ IsSome(result) /\ Get(result).success

\* C11: from the start of a scan to its end, no step other than the handling
\* of a successful result changes the form's title, amount, due date or
\* category; the handling of a terminal failure leaves all four as they were
\* before the scan started.
C11_FailureKeepsFields ==
    [][ (form.scanning /\ ~SuccessHandled)
            => /\ form'.title = form.title
               /\ form'.amount = form.amount
               /\ form'.dueDate = form.dueDate
               /\ form'.category = form.category ]_vars

\* A failed scan has been handled on a form that an earlier scan had filled.
C11_Witness ==
    /\ form.alert = "error" /\ ~form.scanning
    /\ form.title # <<>> /\ form.amount # <<>> /\ form.dueDate # Now
    /\ form.category = "internet"

----------------------------------------------------------------------------
\* C12: one scan is strictly linear and sends at most one text-recognition
\* request.  Stated for the scanBill whose text recognition is callOcrApi:
\* at every point of a scan the number of requests sent to a text
\* recognition service since the scan began is at most one.
C12_AtMostOneRequest == legacy.requests <= 1

\* C13: a scan of the form is never started while an earlier scan of the
\* form is pending: while a call to scanBill is pending the scan button is
\* disabled, and no call has been set aside by a later one.
C13_OneScanPerForm ==
    /\ suspended = IdleCall
    /\ pc # "idle" => (ScanButtonDisabled /\ form.alert # "scanOptions")

\* A second scan of the form, started after the first one had filled the
\* fields, is pending and the button is disabled.
C13_Witness ==
    /\ pc = "post" /\ ScanButtonDisabled
    /\ form.title # <<>> /\ form.amount # <<>>

\* What a call has settled to.
Settled(c) ==
    [ outcome |-> c.outcome, thrown |-> c.thrown, warnings |-> c.warnings,
      result |-> c.result ]

\* What the call settles to when it runs alone with the same inputs: the
\* same response, the same rejection, or no photograph.
Alone(c) ==
    IF IsSome(c.data) THEN ProcessResponse(c.data, <<>>)
    ELSE IF IsSome(c.thrown) THEN Catch(Get(c.thrown), <<>>)
    ELSE Return(<<>>, Failure(<<>>, MSG_NO_PHOTO))

LegacySucceeded ==
    /\ legacy.pc = "done" /\ IsSome(legacy.result)
    /\ Get(legacy.result).success

\* The successful scan recognized the text t.
LegacyScanned(t) == LegacySucceeded /\ legacy.text = Some(t)

\* The amount of the result, in hundredths.
LegacyAmount == parseFloat(Get(Get(legacy.result).amount)).val

\* The year, month and day of the ISO date of the result.
LegacyDateParts ==
    LET parts == Split(Get(Get(legacy.result).dueDate), {"-"})
    IN  [i \in 1..3 |-> Get(parseInt(parts[i]))]

\* C15: the amount extractor never returns a value that is 0 or less, or
\* 50000 or more; a text whose only amount is "99999,00 TL" yields no
\* amount.
C15_AmountInRange ==
    /\ (LegacySucceeded /\ IsSome(Get(legacy.result).amount))
          => (LegacyAmount > 0 /\ LegacyAmount < MAX_AMOUNT)
    /\ LegacyScanned(ImplausibleAmountText) => Get(legacy.result).amount = None

\* C16: for "toplam: 1.234,56 TL" the amount extractor returns 1234.56.
C16_ThousandsSeparator ==
    LegacyScanned(LabeledThousandsText)
        => Get(legacy.result).amount = Some(<<"1", "2", "3", "4", ".", "5", "6">>)

\* C17: for "son odeme tarihi: 05.03.2025" the due-date extractor returns
\* "2025-03-05", and for the bare "05.03.2025" it returns the same.
C17_DayFirstDate ==
    (LegacyScanned(LabeledDateText) \/ LegacyScanned(BareDateText))
        => Get(legacy.result).dueDate
             = Some(<<"2", "0", "2", "5", "-", "0", "3", "-", "0", "5">>)

\* C18: the due-date extractor never returns a date whose day is outside
\* 1..31, whose month is outside 1..12 or whose year is outside the years
\* the validation names, 2024 to 2030.
C18_PlausibleDate ==
    (LegacySucceeded /\ IsSome(Get(legacy.result).dueDate))
        => /\ LegacyDateParts[3] \in 1..31
           /\ LegacyDateParts[2] \in 1..12
           /\ LegacyDateParts[1] \in MIN_YEAR..MAX_YEAR

\* C19: the rawText of a successful result is a prefix of the recognized
\* text and has 500 characters at most.
C19_EchoBounded ==
    LegacySucceeded
        => /\ IsSome(Get(legacy.result).rawText)
           /\ Len(Get(Get(legacy.result).rawText)) <= RAW_TEXT_ECHO
           /\ Get(Get(legacy.result).rawText)
                = SubSeq(Get(legacy.text), 1, Len(Get(Get(legacy.result).rawText)))

\* The entries of BILLER_TO_CATEGORY whose keyword the biller name, in
\* lower case, contains.
KeysIn(billerName) ==
    { j \in DOMAIN BILLER_TO_CATEGORY :
        Includes(toLowerCase(billerName), BILLER_TO_CATEGORY[j].key) }

\* The result handled has a biller name.
BillerHandled == SuccessHandled /\ Truthy(Get(result).billerName)

\* C20, as stated: a biller name that contains a known biller keyword
\* yields that keyword's category, for every keyword it contains.
C20_EveryKeywordsCategory ==
    [][ BillerHandled
          => \A j \in KeysIn(Get(Get(result).billerName)) :
                form'.category = BILLER_TO_CATEGORY[j].cat ]_vars

\* C20, amended: a biller name that contains known biller keywords yields
\* the category of the one that comes first in the table, so a name that
\* contains "enerjisa" yields electricity; the category is a function of
\* the biller name.
C20_FirstKeywordsCategory ==
    [][ BillerHandled
          => LET keys == KeysIn(Get(Get(result).billerName))
             IN  /\ keys # {}
                   => \E j \in keys :
                        /\ \A k \in keys : j <= k
                        /\ form'.category = BILLER_TO_CATEGORY[j].cat
                 /\ 1 \in keys => form'.category = "electricity"
                 /\ form'.category = detectCategory(Get(Get(result).billerName)) ]_vars

\* A scan that read "Turkcell Superonline", which contains the keywords
\* superonline (internet) and turkcell (phone), has been handled.
C20_Witness ==
    /\ form.category = "internet"
    /\ form.fieldConfidence.title # "none"
    /\ Len(form.title) >= 20
    /\ SubSeq(form.title, 1, 8) = <<"T", "u", "r", "k", "c", "e", "l", "l">>

\* The patterns of the amount extractor of the scan that is over.
LegacyAmountPatterns ==
    IF legacy.variant = "A" THEN AMOUNT_PATTERNS ELSE AmountPatternsB

\* The recognized text in lower case, as the extractors match it.
LegacyLowerText == toLowerCase(Get(legacy.text))

\* The values of the matches of a pattern, in the order of the text, whose
\* number lies in the open range (lo, MAX_AMOUNT), in hundredths.
ValidValues(p, t, lo) ==
    LET ms == MatchAll(p, t, 1)
        value(i) == parseFloat(NormalizeAmount(Group1(t, ms[i])))
        valid == { i \in DOMAIN ms : /\ Group1(t, ms[i]) # <<>>
                                     /\ ~isNaN(value(i))
                                     /\ value(i).val > lo
                                     /\ value(i).val < MAX_AMOUNT }
    IN  [ i \in valid |-> toFixed2(value(i)) ]

\* The first valid match of the first tier that has one, None without any.
FirstTierValue(patterns, t, lo) ==
    LET tiers == { k \in DOMAIN patterns : DOMAIN ValidValues(patterns[k], t, lo) # {} }
    IN  IF tiers = {} THEN None
        ELSE LET k == CHOOSE k \in tiers : \A j \in tiers : k <= j
                 v == ValidValues(patterns[k], t, lo)
             IN  Some(v[CHOOSE i \in DOMAIN v : \A j \in DOMAIN v : i <= j])

\* C21: the amount extractor returns the first match, in text order, of the
\* first pattern tier that has a valid match, where a match is valid exactly
\* when its value lies in the open range (0, 50000).
C21_FirstValidTier ==
    LegacySucceeded
        => Get(legacy.result).amount
             = FirstTierValue(LegacyAmountPatterns, LegacyLowerText, 0)

\* The first tier, counted from 1, that has a match valid in
\* (lo, MAX_AMOUNT); 0 without any.
FirstTier(patterns, t, lo) ==
    LET tiers == { k \in DOMAIN patterns : DOMAIN ValidValues(patterns[k], t, lo) # {} }
    IN  IF tiers = {} THEN 0 ELSE CHOOSE k \in tiers : \A j \in tiers : k <= j

\* C22: for "45,90 TL", an amount next to the currency mark without a
\* label, the amount extractor returns 45.90, from a later tier than the
\* tier that returns the same amount for "tutar: 45,90 TL".
C22_UnlabeledAmountLaterTier ==
    /\ (LegacyScanned(SmallAmountText) \/ LegacyScanned(LabeledSmallAmountText))
          => Get(legacy.result).amount = Some(<<"4", "5", ".", "9", "0">>)
    /\ LegacyScanned(SmallAmountText)
          => /\ FirstTier(LegacyAmountPatterns, toLowerCase(LabeledSmallAmountText),
                          MIN_AMOUNT) = 1
             /\ FirstTier(LegacyAmountPatterns, LegacyLowerText, MIN_AMOUNT) > 1
             /\ Get(legacy.result).amount
                  = FirstTierValue(LegacyAmountPatterns, LegacyLowerText, MIN_AMOUNT)

\* A scan that recognized "45,90 TL" is over with the amount 45.90.
C22_Witness ==
    /\ LegacyScanned(SmallAmountText)
    /\ Get(legacy.result).amount = Some(<<"4", "5", ".", "9", "0">>)

\* C23: when the date matched by the labeled pattern fails validation, the
\* due-date extractor goes on to the bare-date patterns: a text with an
\* invalid labeled date followed by a valid bare date yields the bare date.
C23_FallsThroughToBareDate ==
    LegacyScanned(InvalidThenValidText)
        => Get(legacy.result).dueDate
              = Some(<<"2", "0", "2", "5", "-", "0", "3", "-", "0", "5">>)

\* C24: the year check of the due-date extractor follows the current time:
\* no returned date lies in a year before the year of the scan, none lies
\* too far in the future, and a year of two digits is expanded by adding
\* 2000 before the check.
C24_YearWindowFollowsNow ==
    /\ (LegacySucceeded /\ IsSome(Get(legacy.result).dueDate))
          => /\ LegacyDateParts[1] >= legacy.currentYear
             /\ LegacyDateParts[1] <= MAX_YEAR
    /\ LegacyScanned(ShortYearText) /\ legacy.variant = "B"
          => Get(legacy.result).dueDate
                = Some(<<"2", "0", "2", "6", "-", "0", "3", "-", "0", "5">>)

\* The priority order of the categories.
PriorityOrder ==
    << "electricity", "water", "gas", "internet", "phone", "subscriptions", "rent",
       "market" >>

\* The keyword table of the variant that made the scan.
LegacyKeywords ==
    IF legacy.variant = "A" THEN CATEGORY_KEYWORDS ELSE CategoryKeywordsB

\* The places in the priority order of the categories that have a keyword
\* occurring in the lower-cased text of the scan.
CategoryHits ==
    { k \in DOMAIN PriorityOrder :
        \E j \in DOMAIN KeywordsOf(LegacyKeywords, PriorityOrder[k]) :
            Includes(LegacyLowerText, KeywordsOf(LegacyKeywords, PriorityOrder[k])[j]) }

\* C25: the category extractor returns the first category, in the order
\* electricity, water, gas, internet, phone, subscriptions, rent, market,
\* that has a keyword occurring in the lower-cased text, never a later one
\* when an earlier one has a keyword in the text, and no category when no
\* keyword occurs.
C25_FirstCategoryInPriorityOrder ==
    LegacySucceeded
        => /\ CategoryHits = {} => Get(legacy.result).category = None
           /\ \A k \in CategoryHits :
                 (\A h \in CategoryHits : k <= h)
                     => Get(legacy.result).category = Some(PriorityOrder[k])

\* A scan of "Migros elektrik", where the keyword of market comes first in
\* the text, is over with the category electricity.
C25_Witness ==
    /\ LegacyScanned(MarketElectricityText)
    /\ Get(legacy.result).category = Some("electricity")

\* C26: an amount extracted with two decimal digits survives the trip
\* through the form: when handleScanResult writes the amount of a scan into
\* the amount input, what handleSubmit parses from that input is the amount
\* the scan returned.
C26_AmountSurvivesForm ==
    [][ ( /\ pc = "done" /\ pc' = "idle" /\ outcome = "resolved"
          /\ Get(result).success
          /\ IsSome(Get(result).amount)
          /\ ~isNaN(Get(Get(result).amount)) /\ Get(Get(result).amount).val > 0 )
        => SubmittedAmount(form'.amount) = Get(Get(result).amount) ]_vars

\* The request of a form whose amount a scan has filled in is in flight
\* with the amount 350.75.
C26_Witness ==
    /\ form.submitting /\ IsSome(form.request)
    /\ form.fieldConfidence.amount # "none"
    /\ form.amount = <<"3", "5", "0", ".", "7", "5">>
    /\ Get(form.request).amount = Num(35075)

\* The field of the result that a warning is about.
WarnedField(r, w) ==
    CASE Head(w) = "Kurum"  -> r.billerName
      [] Head(w) = "Son"    -> r.dueDate
      [] Head(w) = "Tutari" -> r.amount

\* C27: in every BillScanResult each warning is about a field whose value
\* is present in that result, and a result with success false has no
\* warnings, also when the scan fails after some fields have passed the
\* gate.
C27_WarningsOfPresentFields ==
    IsSome(result)
        => /\ \A k \in DOMAIN Get(result).warnings :
                 IsSome(WarnedField(Get(result), Get(result).warnings[k]))
           /\ ~Get(result).success => Get(result).warnings = <<>>

\* The decision of the gate on a field of the response in data: "none"
\* when the form has not filled the field, else the band of the confidence
\* the field was accepted with.
GateDecision(filled, field) ==
    IF ~filled THEN "none"
    ELSE IF Get(field).confidence >= HIGH_CONFIDENCE THEN "high"
    ELSE "medium"

\* The fields of a result that the form fills: a biller name that is not
\* empty, an amount above 0, a due date that names a date.
FillsTitle(r) == Truthy(r.billerName)
FillsAmount(r) == IsSome(r.amount) /\ ~isNaN(Get(r.amount)) /\ Get(r.amount).val > 0
FillsDate(r) == Truthy(r.dueDate) /\ ~isNaNDate(NewDate(Get(r.dueDate)))

\* C28: after a successful scan the confidence indicator of each field of
\* the form agrees with the decision of the gate on that field: high for a
\* field accepted with a confidence of 0.70 or more, medium for one
\* accepted below 0.70, none for a field that was not filled, whatever the
\* other fields hold.
C28_IndicatorFollowsGate ==
    [][ (pc = "done" /\ pc' = "idle" /\ outcome = "resolved" /\ Get(result).success)
        => form'.fieldConfidence
             = [ title  |-> GateDecision(FillsTitle(Get(result)),
                                         Get(Get(data).parsed).biller_name),
                 amount |-> GateDecision(FillsAmount(Get(result)),
                                         Get(Get(data).parsed).amount_due),
                 date   |-> GateDecision(FillsDate(Get(result)),
                                         Get(Get(data).parsed).due_date) ] ]_vars

\* C29: every scan started from the form eventually ends with the scanning
\* flag false and the scan button enabled again, whether scanBill returns a
\* successful result, a failure or throws, provided the external calls
\* eventually return or fail.
C29_ScanEnds == form.scanning ~> (~form.scanning /\ ~ScanButtonDisabled /\ pc = "idle")

\* A scan that failed or threw is over: the error alert is shown and the
\* scan button is enabled.
C29_Witness ==
    /\ form.alert = "error" /\ pc = "idle"
    /\ ~form.scanning /\ ~ScanButtonDisabled

\* The number of days of a month of the Gregorian calendar.
DaysInMonth(month, year) ==
    IF month \in {4, 6, 9, 11} THEN 30
    ELSE IF month # 2 THEN 31
    ELSE IF year % 4 = 0 /\ (year % 100 # 0 \/ year % 400 = 0) THEN 29
    ELSE 28

\* C30: every dueDate the due-date extractor returns denotes a real
\* calendar date, its day existing in its month and year, written as
\* YYYY-MM-DD with the month and the day padded to two digits.
C30_RealCalendarDate ==
    (LegacySucceeded /\ IsSome(Get(legacy.result).dueDate))
        => /\ Len(Get(Get(legacy.result).dueDate)) = 10
           /\ Get(Get(legacy.result).dueDate)[5] = "-"
           /\ Get(Get(legacy.result).dueDate)[8] = "-"
           /\ LegacyDateParts[2] \in 1..12
           /\ LegacyDateParts[3] \in 1..DaysInMonth(LegacyDateParts[2], LegacyDateParts[1])

====
